---- MODULE Spec2Model ----
(***************************************************************************)
(* Model of the interactive configuration wizard of                        *)
(* pocket-1-click-gateway: src/src/metadata.ts, lines 1-273                *)
(* (normalizeDomain, domainLooksValid, formatSummary,                      *)
(* normalizeFrontendHosting, the prompt factories, askAll, editLoop and    *)
(* collectProjectMetadata), of the end of runPreflightOrExit               *)
(* (metadata.ts 737-769), of main (src/unnamed/part_002) and of            *)
(* runWalletSetup (src/unnamed/part_001), which main calls with the        *)
(* network of the configuration and whose result ends the process.         *)
(*                                                                         *)
(* Representation of JavaScript values:                                    *)
(*   - a string whose characters the code inspects (project name, domain)  *)
(*     is a sequence of strings, one per Unicode character: the character  *)
(*     itself, or, for a small letter that a string of a module cannot     *)
(*     hold, the escape sequence of its code unit (SmallEscapeSeq).  A     *)
(*     character of the basic plane is one UTF-16 code unit of the         *)
(*     JavaScript string, a supplementary character is two (length);       *)
(*   - an enumeration value ("mainnet", "vps", ...) is a TLA+ string;      *)
(*   - a value that may be null, a string or an array (domain,             *)
(*     integrations) is tagged: JNull, JStr(chars), JArr(items).           *)
(***************************************************************************)
EXTENDS Integers, Sequences, FiniteSets, TLC

VARIABLES
  pc,             \* where collectProjectMetadata is suspended
  prompt,         \* the prompt that is open
  results,        \* the results object of p.group
  meta,           \* the ProjectMetadata of the current pass
  summary,        \* the summary editLoop rendered last
  next,           \* what editLoop returned last
  outcome,        \* how collectProjectMetadata concluded
  returned,       \* the ProjectMetadata it returned
  groupCancelled, \* onCancel of p.group ran in the current pass
  pass,           \* number of the current pass
  lastEvent,      \* the last step taken
  normalizerRan,  \* history: the last step called normalizeFrontendHosting
  isTTY,          \* stdin and stdout are interactive terminals
  mainPc,         \* where main is suspended
  failures,       \* the failed checks of runPreflightOrExit
  exitCode,       \* the status process.exit was called with
  walletNetwork,  \* the network runWalletSetup was called with
  consoleLog,     \* the lines main wrote with console.log
  walletPc,       \* the prompt runWalletSetup waits at, or how it ended
  wallet,         \* the answers runWalletSetup holds
  walletResult,   \* what runWalletSetup returned
  walletAwait,    \* the promise runWalletSetup awaits, other than a prompt
  fnArg,          \* the argument of a function applied on its own
  fnRes           \* its results

\* the variables of main and runPreflightOrExit
procVars == <<isTTY, mainPc, failures, exitCode, walletNetwork>>

\* the variables of runWalletSetup
walletVars == <<walletPc, wallet, walletResult, walletAwait>>

\* the variables of a function applied on its own
fnVars == <<fnArg, fnRes>>

vars == <<pc, prompt, results, meta, summary, next, outcome, returned,
          groupCancelled, pass, lastEvent, normalizerRan,
          isTTY, mainPc, failures, exitCode, walletNetwork,
          consoleLog, walletPc, wallet, walletResult, walletAwait,
          fnArg, fnRes>>

(***************************************************************************)
(* Bounds of the model.                                                    *)
(***************************************************************************)
\* the passes (askAll calls) are counted up to this number
MaxPasses == 2
\* largest reading of the clock (new Date()) explored
MaxClock == 1
\* how often a function applied on its own is applied in succession
MaxApplications == 3
Timestamps == 0..MaxClock

(***************************************************************************)
(* Program constants.                                                      *)
(***************************************************************************)
\* validate(): v.length > 64 is rejected
MaxNameLen == 64
\* [a-z0-9-]{0,61} in the middle of a label
MaxLabelMid == 61
\* [a-z]{2,} top label
MinTldLen == 2
\* /^pokt1[0-9a-z]{20,90}$/
MinAddrBody == 20
MaxAddrBody == 90
\* \d{1,5} port
MaxPortDigits == 5

(***************************************************************************)
(* Characters and strings.                                                 *)
(***************************************************************************)
LowerSeq == <<"a","b","c","d","e","f","g","h","i","j","k","l","m",
              "n","o","p","q","r","s","t","u","v","w","x","y","z">>
UpperSeq == <<"A","B","C","D","E","F","G","H","I","J","K","L","M",
              "N","O","P","Q","R","S","T","U","V","W","X","Y","Z">>
Lower == {LowerSeq[i] : i \in 1..26}
Upper == {UpperSeq[i] : i \in 1..26}
Digit == {"0","1","2","3","4","5","6","7","8","9"}
Letter == Lower \cup Upper
AlNum == Letter \cup Digit
\* the capitals of the Latin-1 supplement (U+00C0..U+00DE without the
\* multiplication sign U+00D7) and their small letters (U+00E0..U+00FE)
Latin1UpperSeq == <<"À","Á","Â","Ã","Ä","Å","Æ","Ç","È","É",
                    "Ê","Ë","Ì","Í","Î","Ï","Ð","Ñ","Ò","Ó",
                    "Ô","Õ","Ö","Ø","Ù","Ú","Û","Ü","Ý","Þ">>
Latin1LowerSeq == <<"à","á","â","ã","ä","å","æ","ç","è","é",
                    "ê","ë","ì","í","î","ï","ð","ñ","ò","ó",
                    "ô","õ","ö","ø","ù","ú","û","ü","ý","þ">>
Latin1Upper == {Latin1UpperSeq[i] : i \in 1..Len(Latin1UpperSeq)}
\* the white space and line terminators String.prototype.trim and the regex
\* class \s remove, as far as a string of this module can hold them: space,
\* tab, line feed, carriage return, form feed, vertical tab (U+000B),
\* no-break space (U+00A0), ogham space mark (U+1680), byte order mark
\* (U+FEFF).  The space separators U+2000..U+200A, U+202F, U+205F, U+3000 and
\* the line separators U+2028, U+2029 belong to the class too; a string of a
\* module cannot hold them.
Whitespace == {" ", "\t", "\n", "\r", "\f", "", " ", " ", "﻿"}

SetMin(S) == CHOOSE m \in S : \A n \in S : m <= n
SetMax(S) == CHOOSE m \in S : \A n \in S : m >= n

\* n copies of the character c
Rep(c, n) == [i \in 1..n |-> c]

\* a supplementary character (U+30080): a surrogate pair in a JavaScript
\* string
Supplementary == "𰂀"

\* String.prototype.length: the number of UTF-16 code units of s.  Every
\* character is one code unit, but a supplementary character, which is two:
\* its string is two long (an escape sequence, of one code unit, is six).
SurrogatePairLen == 2
length(s) ==
  Len(s) + Cardinality({i \in 1..Len(s) : Len(s[i]) = SurrogatePairLen})

\* the capitals beyond Latin-1 that a string of this module can hold and
\* whose small letter it can hold too (Unicode simple lower-case mapping),
\* and, at the same positions, their small letters
CapitalSeq ==
  << "Ƃ","Ƅ","Ƈ","Ƌ","Ǝ","Ƒ","Ƙ","Ơ","Ƣ","Ƥ","Ʀ","Ƨ",
    "Ʃ","Ƭ","Ʈ","Ư","Ʊ","Ʋ","Ƴ","Ƶ","Ʒ","Ƹ","Ƽ","Ǆ",
    "ǅ","Ǉ","ǈ","Ǌ","ǋ","Ǎ","Ǐ","Ǒ","Ǔ","Ǖ","Ǘ","Ǚ",
    "Ǜ","Ǟ","Ǡ","Ǣ","Ǥ","Ǧ","Ǩ","Ǫ","Ǭ","Ǯ","Ǳ","ǲ",
    "Ǵ","Ƕ","Ƿ","Ǹ","Ǻ","Ǽ","Ǿ","Ά","Έ","Ή","Ί","Ό",
    "Ύ","Ώ","Α","Β","Γ","Δ","Ε","Ζ","Η","Θ","Ι","Κ",
    "Λ","Μ","Ν","Ξ","Ο","Π","Ρ","Σ","Τ","Υ","Φ","Χ",
    "Ψ","Ω","Ϊ","Ϋ","Ϗ","Ϙ","Ϛ","Ϝ","Ϟ","Ϡ","Ϣ","Ϥ",
    "Ϧ","Ϩ","Ϫ","Ϭ","Ϯ","ϴ","Ϸ","Ϲ","Ϻ","Ҁ","Ҋ","Ҍ",
    "Ҏ","Ґ","Ғ","Ҕ","Җ","Ҙ","Қ","Ҝ","Ҟ","Ҡ","Ң","Ҥ",
    "Ҧ","Ҩ","Ҫ","Ҭ","Ү","Ұ","Ҳ","Ҵ","Ҷ","Ҹ","Һ","Ҽ",
    "Ҿ","Ӏ","Ӂ","Ӄ","Ӆ","Ӈ","Ӊ","Ӌ","Ӎ","Ӑ","Ӓ","Ӕ",
    "Ӗ","Ә","Ӛ","Ӝ","Ӟ","Ӡ","Ӣ","Ӥ","Ӧ","Ө","Ӫ","Ӭ",
    "Ӯ","Ӱ","Ӳ","Ӵ","Ӷ","Ӹ","Ӻ","Ӽ","Ӿ","Ꮀ","Ꮁ","Ꮂ",
    "Ꮃ","Ꮄ","Ꮅ","Ꮆ","Ꮇ","Ꮈ","Ꮉ","Ꮊ","Ꮋ","Ꮌ","Ꮍ","Ꮎ",
    "Ꮏ","Ꮐ","Ꮑ","Ꮒ","Ꮓ","Ꮔ","Ꮕ","Ꮖ","Ꮗ","Ꮘ","Ꮙ","Ꮚ",
    "Ꮛ","Ꮜ","Ꮝ","Ꮞ","Ꮟ","Ꮠ","Ꮡ","Ꮢ","Ꮣ","Ꮤ","Ꮥ","Ꮦ",
    "Ꮧ","Ꮨ","Ꮩ","Ꮪ","Ꮫ","Ꮬ","Ꮭ","Ꮮ","Ꮯ","Ꮰ","Ꮱ","Ꮲ",
    "Ꮳ","Ꮴ","Ꮵ","Ꮶ","Ꮷ","Ꮸ","Ꮹ","Ꮺ","Ꮻ","Ꮼ","Ꮽ","Ꮾ",
    "Ꮿ","Ᏸ","Ᏹ","Ᏺ","Ᏻ","Ᏼ","Ᏽ","Ᲊ","Ა","Ბ","Გ","Დ",
    "Ე","Ვ","Ზ","Თ","Ი","Კ","Ლ","Მ","Ნ","Ო","Პ","Ჟ",
    "Რ","Ს","Ტ","Უ","Ფ","Ქ","Ღ","Ყ","Შ","Ჩ","Ც","Ძ",
    "Წ","Ჭ","Ხ","Ჯ","Ჰ","Ჱ","Ჲ","Ჳ","Ჴ","Ჵ","Ჶ","Ჷ",
    "Ჸ","Ჹ","Ჺ","Ჽ","Ჾ","Ჿ","Ẁ","Ẃ","Ẅ","Ẇ","Ẉ","Ẋ",
    "Ẍ","Ẏ","Ẑ","Ẓ","Ẕ","ẞ","Ạ","Ả","Ấ","Ầ","Ẩ","Ẫ",
    "Ậ","Ắ","Ằ","Ẳ","Ẵ","Ặ","Ẹ","Ẻ","Ẽ","Ế","Ề","Ể",
    "Ễ","Ệ","Ỉ","Ị","Ọ","Ỏ","Ố","Ồ","Ổ","Ỗ","Ộ","Ớ",
    "Ờ","Ở","Ỡ","Ợ","Ụ","Ủ","Ứ","Ừ","Ử","Ữ","Ự","Ỳ",
    "Ỵ","Ỷ","Ỹ","Ỻ","Ỽ","Ỿ","ᾈ","ᾉ","ᾊ","ᾋ","ᾌ","ᾍ",
    "ᾎ","ᾏ","ᾘ","ᾙ","ᾚ","ᾛ","ᾜ","ᾝ","ᾞ","ᾟ","ᾨ","ᾩ",
    "ᾪ","ᾫ","ᾬ","ᾭ","ᾮ","ᾯ","Ᾰ","Ᾱ","ᾼ","ῌ","Ῐ","Ῑ",
    "Ῠ","Ῡ","Ῥ","ῼ","Ↄ","Ⓐ","Ⓑ","Ⓒ","Ⓓ","Ⓔ","Ⓕ","Ⓖ",
    "Ⓗ","Ⓘ","Ⓙ","Ⓚ","Ⓛ","Ⓜ","Ⓝ","Ⓞ","Ⓟ","Ⓠ","Ⓡ","Ⓢ",
    "Ⓣ","Ⓤ","Ⓥ","Ⓦ","Ⓧ","Ⓨ","Ⓩ","Ⲁ","Ⲃ","Ⲅ","Ⲇ","Ⲉ",
    "Ⲋ","Ⲍ","Ⲏ","Ⲑ","Ⲓ","Ⲕ","Ⲗ","Ⲙ","Ⲛ","Ⲝ","Ⲟ","Ⲡ",
    "Ⲣ","Ⲥ","Ⲧ","Ⲩ","Ⲫ","Ⲭ","Ⲯ","Ⲱ","Ⲳ","Ⲵ","Ⲷ","Ⲹ",
    "Ⲻ","Ⲽ","Ⲿ","Ⳁ","Ⳃ","Ⳅ","Ⳇ","Ⳉ","Ⳋ","Ⳍ","Ⳏ","Ⳑ",
    "Ⳓ","Ⳕ","Ⳗ","Ⳙ","Ⳛ","Ⳝ","Ⳟ","Ⳡ","Ⳣ","Ⳬ","Ⳮ","Ⳳ",
    "Ꚁ","Ꚃ","Ꚅ","Ꚇ","Ꚉ","Ꚋ","Ꚍ","Ꚏ","Ꚑ","Ꚓ","Ꚕ","Ꚗ",
    "Ꚙ","Ꚛ","Ꞁ","Ꞃ","Ꞅ","Ꞇ","Ꞌ","Ꞑ","Ꞓ","Ꞗ","Ꞙ","Ꞛ",
    "Ꞝ","Ꞟ","Ꞡ","Ꞣ","Ꞥ","Ꞧ","Ꞩ","Ʞ","Ʇ","Ʝ","Ꞵ","Ꞷ",
    "Ꞹ","Ꞻ","Ꞽ","Ꞿ","Ꟁ","Ꟃ","Ꞔ","Ʂ","Ᶎ","Ꟈ","Ꟊ","Ꟍ",
    "꟎","Ꟑ","꟒","꟔","Ꟗ","Ꟙ","Ꟛ","Ƛ","Ꟶ" >>
SmallSeq ==
  << "ƃ","ƅ","ƈ","ƌ","ǝ","ƒ","ƙ","ơ","ƣ","ƥ","ʀ","ƨ",
    "ʃ","ƭ","ʈ","ư","ʊ","ʋ","ƴ","ƶ","ʒ","ƹ","ƽ","ǆ",
    "ǆ","ǉ","ǉ","ǌ","ǌ","ǎ","ǐ","ǒ","ǔ","ǖ","ǘ","ǚ",
    "ǜ","ǟ","ǡ","ǣ","ǥ","ǧ","ǩ","ǫ","ǭ","ǯ","ǳ","ǳ",
    "ǵ","ƕ","ƿ","ǹ","ǻ","ǽ","ǿ","ά","έ","ή","ί","ό",
    "ύ","ώ","α","β","γ","δ","ε","ζ","η","θ","ι","κ",
    "λ","μ","ν","ξ","ο","π","ρ","σ","τ","υ","φ","χ",
    "ψ","ω","ϊ","ϋ","ϗ","ϙ","ϛ","ϝ","ϟ","ϡ","ϣ","ϥ",
    "ϧ","ϩ","ϫ","ϭ","ϯ","θ","ϸ","ϲ","ϻ","ҁ","ҋ","ҍ",
    "ҏ","ґ","ғ","ҕ","җ","ҙ","қ","ҝ","ҟ","ҡ","ң","ҥ",
    "ҧ","ҩ","ҫ","ҭ","ү","ұ","ҳ","ҵ","ҷ","ҹ","һ","ҽ",
    "ҿ","ӏ","ӂ","ӄ","ӆ","ӈ","ӊ","ӌ","ӎ","ӑ","ӓ","ӕ",
    "ӗ","ә","ӛ","ӝ","ӟ","ӡ","ӣ","ӥ","ӧ","ө","ӫ","ӭ",
    "ӯ","ӱ","ӳ","ӵ","ӷ","ӹ","ӻ","ӽ","ӿ","ꮀ","ꮁ","ꮂ",
    "ꮃ","ꮄ","ꮅ","ꮆ","ꮇ","ꮈ","ꮉ","ꮊ","ꮋ","ꮌ","ꮍ","ꮎ",
    "ꮏ","ꮐ","ꮑ","ꮒ","ꮓ","ꮔ","ꮕ","ꮖ","ꮗ","ꮘ","ꮙ","ꮚ",
    "ꮛ","ꮜ","ꮝ","ꮞ","ꮟ","ꮠ","ꮡ","ꮢ","ꮣ","ꮤ","ꮥ","ꮦ",
    "ꮧ","ꮨ","ꮩ","ꮪ","ꮫ","ꮬ","ꮭ","ꮮ","ꮯ","ꮰ","ꮱ","ꮲ",
    "ꮳ","ꮴ","ꮵ","ꮶ","ꮷ","ꮸ","ꮹ","ꮺ","ꮻ","ꮼ","ꮽ","ꮾ",
    "ꮿ","ᏸ","ᏹ","ᏺ","ᏻ","ᏼ","ᏽ","ᲊ","ა","ბ","გ","დ",
    "ე","ვ","ზ","თ","ი","კ","ლ","მ","ნ","ო","პ","ჟ",
    "რ","ს","ტ","უ","ფ","ქ","ღ","ყ","შ","ჩ","ც","ძ",
    "წ","ჭ","ხ","ჯ","ჰ","ჱ","ჲ","ჳ","ჴ","ჵ","ჶ","ჷ",
    "ჸ","ჹ","ჺ","ჽ","ჾ","ჿ","ẁ","ẃ","ẅ","ẇ","ẉ","ẋ",
    "ẍ","ẏ","ẑ","ẓ","ẕ","ß","ạ","ả","ấ","ầ","ẩ","ẫ",
    "ậ","ắ","ằ","ẳ","ẵ","ặ","ẹ","ẻ","ẽ","ế","ề","ể",
    "ễ","ệ","ỉ","ị","ọ","ỏ","ố","ồ","ổ","ỗ","ộ","ớ",
    "ờ","ở","ỡ","ợ","ụ","ủ","ứ","ừ","ử","ữ","ự","ỳ",
    "ỵ","ỷ","ỹ","ỻ","ỽ","ỿ","ᾀ","ᾁ","ᾂ","ᾃ","ᾄ","ᾅ",
    "ᾆ","ᾇ","ᾐ","ᾑ","ᾒ","ᾓ","ᾔ","ᾕ","ᾖ","ᾗ","ᾠ","ᾡ",
    "ᾢ","ᾣ","ᾤ","ᾥ","ᾦ","ᾧ","ᾰ","ᾱ","ᾳ","ῃ","ῐ","ῑ",
    "ῠ","ῡ","ῥ","ῳ","ↄ","ⓐ","ⓑ","ⓒ","ⓓ","ⓔ","ⓕ","ⓖ",
    "ⓗ","ⓘ","ⓙ","ⓚ","ⓛ","ⓜ","ⓝ","ⓞ","ⓟ","ⓠ","ⓡ","ⓢ",
    "ⓣ","ⓤ","ⓥ","ⓦ","ⓧ","ⓨ","ⓩ","ⲁ","ⲃ","ⲅ","ⲇ","ⲉ",
    "ⲋ","ⲍ","ⲏ","ⲑ","ⲓ","ⲕ","ⲗ","ⲙ","ⲛ","ⲝ","ⲟ","ⲡ",
    "ⲣ","ⲥ","ⲧ","ⲩ","ⲫ","ⲭ","ⲯ","ⲱ","ⲳ","ⲵ","ⲷ","ⲹ",
    "ⲻ","ⲽ","ⲿ","ⳁ","ⳃ","ⳅ","ⳇ","ⳉ","ⳋ","ⳍ","ⳏ","ⳑ",
    "ⳓ","ⳕ","ⳗ","ⳙ","ⳛ","ⳝ","ⳟ","ⳡ","ⳣ","ⳬ","ⳮ","ⳳ",
    "ꚁ","ꚃ","ꚅ","ꚇ","ꚉ","ꚋ","ꚍ","ꚏ","ꚑ","ꚓ","ꚕ","ꚗ",
    "ꚙ","ꚛ","ꞁ","ꞃ","ꞅ","ꞇ","ꞌ","ꞑ","ꞓ","ꞗ","ꞙ","ꞛ",
    "ꞝ","ꞟ","ꞡ","ꞣ","ꞥ","ꞧ","ꞩ","ʞ","ʇ","ʝ","ꞵ","ꞷ",
    "ꞹ","ꞻ","ꞽ","ꞿ","ꟁ","ꟃ","ꞔ","ʂ","ᶎ","ꟈ","ꟊ","ꟍ",
    "꟏","ꟑ","ꟓ","ꟕ","ꟗ","ꟙ","ꟛ","ƛ","ꟶ" >>
Capital == {CapitalSeq[i] : i \in 1..Len(CapitalSeq)}
\* the capitals a string of this module can hold while it cannot hold their
\* small letter (U+0181 and U+0253, for one), and, at the same positions,
\* their small letters, each written as the escape sequence of its code
\* unit, as one string (a backslash, u and four hexadecimal digits)
CapitalWithoutSmallSeq ==
  << "Ɓ","Ɔ","Ɖ","Ɗ","Ə","Ɛ","Ɠ","Ɣ","Ɩ","Ɨ","Ɯ","Ɲ",
    "Ɵ","Ͻ","Ͼ","Ͽ","Ⴀ","Ⴁ","Ⴂ","Ⴃ","Ⴄ","Ⴅ","Ⴆ","Ⴇ",
    "Ⴈ","Ⴉ","Ⴊ","Ⴋ","Ⴌ","Ⴍ","Ⴎ","Ⴏ","Ⴐ","Ⴑ","Ⴒ","Ⴓ",
    "Ⴔ","Ⴕ","Ⴖ","Ⴗ","Ⴘ","Ⴙ","Ⴚ","Ⴛ","Ⴜ","Ⴝ","Ⴞ","Ⴟ",
    "Ⴠ","Ⴡ","Ⴢ","Ⴣ","Ⴤ","Ⴥ","Ⴧ","Ⴭ","Ꭰ","Ꭱ","Ꭲ","Ꭳ",
    "Ꭴ","Ꭵ","Ꭶ","Ꭷ","Ꭸ","Ꭹ","Ꭺ","Ꭻ","Ꭼ","Ꭽ","Ꭾ","Ꭿ",
    "Ὰ","Ά","Ὲ","Έ","Ὴ","Ή","Ὶ","Ί","Ὺ","Ύ","Ὸ","Ό",
    "Ὼ","Ώ","Ɥ","Ɦ","Ɜ","Ɡ","Ɬ","Ɪ","Ꭓ","Ɤ" >>
SmallEscapeSeq ==
  << "\\u0253","\\u0254","\\u0256","\\u0257","\\u0259","\\u025b",
    "\\u0260","\\u0263","\\u0269","\\u0268","\\u026f","\\u0272",
    "\\u0275","\\u037b","\\u037c","\\u037d","\\u2d00","\\u2d01",
    "\\u2d02","\\u2d03","\\u2d04","\\u2d05","\\u2d06","\\u2d07",
    "\\u2d08","\\u2d09","\\u2d0a","\\u2d0b","\\u2d0c","\\u2d0d",
    "\\u2d0e","\\u2d0f","\\u2d10","\\u2d11","\\u2d12","\\u2d13",
    "\\u2d14","\\u2d15","\\u2d16","\\u2d17","\\u2d18","\\u2d19",
    "\\u2d1a","\\u2d1b","\\u2d1c","\\u2d1d","\\u2d1e","\\u2d1f",
    "\\u2d20","\\u2d21","\\u2d22","\\u2d23","\\u2d24","\\u2d25",
    "\\u2d27","\\u2d2d","\\uab70","\\uab71","\\uab72","\\uab73",
    "\\uab74","\\uab75","\\uab76","\\uab77","\\uab78","\\uab79",
    "\\uab7a","\\uab7b","\\uab7c","\\uab7d","\\uab7e","\\uab7f",
    "\\u1f70","\\u1f71","\\u1f72","\\u1f73","\\u1f74","\\u1f75",
    "\\u1f76","\\u1f77","\\u1f7a","\\u1f7b","\\u1f78","\\u1f79",
    "\\u1f7c","\\u1f7d","\\u0265","\\u0266","\\u025c","\\u0261",
    "\\u026c","\\u026a","\\uab53","\\u0264" >>
CapitalWithoutSmall ==
  {CapitalWithoutSmallSeq[i] : i \in 1..Len(CapitalWithoutSmallSeq)}
SmallEscape == {SmallEscapeSeq[i] : i \in 1..Len(SmallEscapeSeq)}
\* the cased characters that are not case-ignorable, and the case-ignorable
\* characters (Unicode 17.0, section 3.13), as far as a string of this module
\* holds them, and the small letters of SmallEscapeSeq, which are cased:
\* they decide about the final sigma
Cased ==
  { "A","B","C","D","E","F","G","H","I","J","K","L",
    "M","N","O","P","Q","R","S","T","U","V","W","X",
    "Y","Z","a","b","c","d","e","f","g","h","i","j",
    "k","l","m","n","o","p","q","r","s","t","u","v",
    "w","x","y","z","ª","µ","º","À","Á","Â","Ã","Ä",
    "Å","Æ","Ç","È","É","Ê","Ë","Ì","Í","Î","Ï","Ð",
    "Ñ","Ò","Ó","Ô","Õ","Ö","Ø","Ù","Ú","Û","Ü","Ý",
    "Þ","ß","à","á","â","ã","ä","å","æ","ç","è","é",
    "ê","ë","ì","í","î","ï","ð","ñ","ò","ó","ô","õ",
    "ö","ø","ù","ú","û","ü","ý","þ","ÿ","ƀ","Ɓ","Ƃ",
    "ƃ","Ƅ","ƅ","Ɔ","Ƈ","ƈ","Ɖ","Ɗ","Ƌ","ƌ","ƍ","Ǝ",
    "Ə","Ɛ","Ƒ","ƒ","Ɠ","Ɣ","ƕ","Ɩ","Ɨ","Ƙ","ƙ","ƚ",
    "ƛ","Ɯ","Ɲ","ƞ","Ɵ","Ơ","ơ","Ƣ","ƣ","Ƥ","ƥ","Ʀ",
    "Ƨ","ƨ","Ʃ","ƪ","ƫ","Ƭ","ƭ","Ʈ","Ư","ư","Ʊ","Ʋ",
    "Ƴ","ƴ","Ƶ","ƶ","Ʒ","Ƹ","ƹ","ƺ","Ƽ","ƽ","ƾ","ƿ",
    "Ǆ","ǅ","ǆ","Ǉ","ǈ","ǉ","Ǌ","ǋ","ǌ","Ǎ","ǎ","Ǐ",
    "ǐ","Ǒ","ǒ","Ǔ","ǔ","Ǖ","ǖ","Ǘ","ǘ","Ǚ","ǚ","Ǜ",
    "ǜ","ǝ","Ǟ","ǟ","Ǡ","ǡ","Ǣ","ǣ","Ǥ","ǥ","Ǧ","ǧ",
    "Ǩ","ǩ","Ǫ","ǫ","Ǭ","ǭ","Ǯ","ǯ","ǰ","Ǳ","ǲ","ǳ",
    "Ǵ","ǵ","Ƕ","Ƿ","Ǹ","ǹ","Ǻ","ǻ","Ǽ","ǽ","Ǿ","ǿ",
    "ʀ","ʁ","ʂ","ʃ","ʄ","ʅ","ʆ","ʇ","ʈ","ʉ","ʊ","ʋ",
    "ʌ","ʍ","ʎ","ʏ","ʐ","ʑ","ʒ","ʓ","ʖ","ʗ","ʘ",
    "ʙ","ʚ","ʛ","ʜ","ʝ","ʞ","ʟ","ʠ","ʡ","ʢ","ʣ","ʤ",
    "ʥ","ʦ","ʧ","ʨ","ʩ","ʪ","ʫ","ʬ","ʭ","ʮ","ʯ","Ά",
    "Έ","Ή","Ί","Ό","Ύ","Ώ","ΐ","Α","Β","Γ","Δ","Ε",
    "Ζ","Η","Θ","Ι","Κ","Λ","Μ","Ν","Ξ","Ο","Π","Ρ",
    "Σ","Τ","Υ","Φ","Χ","Ψ","Ω","Ϊ","Ϋ","ά","έ","ή",
    "ί","ΰ","α","β","γ","δ","ε","ζ","η","θ","ι","κ",
    "λ","μ","ν","ξ","ο","π","ρ","ς","σ","τ","υ","φ",
    "χ","ψ","ω","ϊ","ϋ","ό","ύ","ώ","Ϗ","ϐ","ϑ","ϒ",
    "ϓ","ϔ","ϕ","ϖ","ϗ","Ϙ","ϙ","Ϛ","ϛ","Ϝ","ϝ","Ϟ",
    "ϟ","Ϡ","ϡ","Ϣ","ϣ","Ϥ","ϥ","Ϧ","ϧ","Ϩ","ϩ","Ϫ",
    "ϫ","Ϭ","ϭ","Ϯ","ϯ","ϰ","ϱ","ϲ","ϳ","ϴ","ϵ","Ϸ",
    "ϸ","Ϲ","Ϻ","ϻ","ϼ","Ͻ","Ͼ","Ͽ","Ҁ","ҁ","Ҋ","ҋ",
    "Ҍ","ҍ","Ҏ","ҏ","Ґ","ґ","Ғ","ғ","Ҕ","ҕ","Җ","җ",
    "Ҙ","ҙ","Қ","қ","Ҝ","ҝ","Ҟ","ҟ","Ҡ","ҡ","Ң","ң",
    "Ҥ","ҥ","Ҧ","ҧ","Ҩ","ҩ","Ҫ","ҫ","Ҭ","ҭ","Ү","ү",
    "Ұ","ұ","Ҳ","ҳ","Ҵ","ҵ","Ҷ","ҷ","Ҹ","ҹ","Һ","һ",
    "Ҽ","ҽ","Ҿ","ҿ","Ӏ","Ӂ","ӂ","Ӄ","ӄ","Ӆ","ӆ","Ӈ",
    "ӈ","Ӊ","ӊ","Ӌ","ӌ","Ӎ","ӎ","ӏ","Ӑ","ӑ","Ӓ","ӓ",
    "Ӕ","ӕ","Ӗ","ӗ","Ә","ә","Ӛ","ӛ","Ӝ","ӝ","Ӟ","ӟ",
    "Ӡ","ӡ","Ӣ","ӣ","Ӥ","ӥ","Ӧ","ӧ","Ө","ө","Ӫ","ӫ",
    "Ӭ","ӭ","Ӯ","ӯ","Ӱ","ӱ","Ӳ","ӳ","Ӵ","ӵ","Ӷ","ӷ",
    "Ӹ","ӹ","Ӻ","ӻ","Ӽ","ӽ","Ӿ","ӿ","ր","ց","ւ","փ",
    "ք","օ","ֆ","և","ֈ","Ⴀ","Ⴁ","Ⴂ","Ⴃ","Ⴄ","Ⴅ","Ⴆ",
    "Ⴇ","Ⴈ","Ⴉ","Ⴊ","Ⴋ","Ⴌ","Ⴍ","Ⴎ","Ⴏ","Ⴐ","Ⴑ","Ⴒ",
    "Ⴓ","Ⴔ","Ⴕ","Ⴖ","Ⴗ","Ⴘ","Ⴙ","Ⴚ","Ⴛ","Ⴜ","Ⴝ","Ⴞ",
    "Ⴟ","Ⴠ","Ⴡ","Ⴢ","Ⴣ","Ⴤ","Ⴥ","Ⴧ","Ⴭ","ა","ბ","გ",
    "დ","ე","ვ","ზ","თ","ი","კ","ლ","მ","ნ","ო","პ",
    "ჟ","რ","ს","ტ","უ","ფ","ქ","ღ","ყ","შ","ჩ","ც",
    "ძ","წ","ჭ","ხ","ჯ","ჰ","ჱ","ჲ","ჳ","ჴ","ჵ","ჶ",
    "ჷ","ჸ","ჹ","ჺ","ჽ","ჾ","ჿ","Ꭰ","Ꭱ","Ꭲ","Ꭳ","Ꭴ",
    "Ꭵ","Ꭶ","Ꭷ","Ꭸ","Ꭹ","Ꭺ","Ꭻ","Ꭼ","Ꭽ","Ꭾ","Ꭿ","Ꮀ",
    "Ꮁ","Ꮂ","Ꮃ","Ꮄ","Ꮅ","Ꮆ","Ꮇ","Ꮈ","Ꮉ","Ꮊ","Ꮋ","Ꮌ",
    "Ꮍ","Ꮎ","Ꮏ","Ꮐ","Ꮑ","Ꮒ","Ꮓ","Ꮔ","Ꮕ","Ꮖ","Ꮗ","Ꮘ",
    "Ꮙ","Ꮚ","Ꮛ","Ꮜ","Ꮝ","Ꮞ","Ꮟ","Ꮠ","Ꮡ","Ꮢ","Ꮣ","Ꮤ",
    "Ꮥ","Ꮦ","Ꮧ","Ꮨ","Ꮩ","Ꮪ","Ꮫ","Ꮬ","Ꮭ","Ꮮ","Ꮯ","Ꮰ",
    "Ꮱ","Ꮲ","Ꮳ","Ꮴ","Ꮵ","Ꮶ","Ꮷ","Ꮸ","Ꮹ","Ꮺ","Ꮻ","Ꮼ",
    "Ꮽ","Ꮾ","Ꮿ","Ᏸ","Ᏹ","Ᏺ","Ᏻ","Ᏼ","Ᏽ","ᏸ","ᏹ","ᏺ",
    "ᏻ","ᏼ","ᏽ","ᲀ","ᲁ","ᲂ","ᲃ","ᲄ","ᲅ","ᲆ","ᲇ","ᲈ",
    "Ᲊ","ᲊ","Ა","Ბ","Გ","Დ","Ე","Ვ","Ზ","Თ","Ი","Კ",
    "Ლ","Მ","Ნ","Ო","Პ","Ჟ","Რ","Ს","Ტ","Უ","Ფ","Ქ",
    "Ღ","Ყ","Შ","Ჩ","Ც","Ძ","Წ","Ჭ","Ხ","Ჯ","Ჰ","Ჱ",
    "Ჲ","Ჳ","Ჴ","Ჵ","Ჶ","Ჷ","Ჸ","Ჹ","Ჺ","Ჽ","Ჾ","Ჿ",
    "ᶀ","ᶁ","ᶂ","ᶃ","ᶄ","ᶅ","ᶆ","ᶇ","ᶈ","ᶉ","ᶊ","ᶋ",
    "ᶌ","ᶍ","ᶎ","ᶏ","ᶐ","ᶑ","ᶒ","ᶓ","ᶔ","ᶕ","ᶖ","ᶗ",
    "ᶘ","ᶙ","ᶚ","Ẁ","ẁ","Ẃ","ẃ","Ẅ","ẅ","Ẇ","ẇ","Ẉ",
    "ẉ","Ẋ","ẋ","Ẍ","ẍ","Ẏ","ẏ","Ẑ","ẑ","Ẓ","ẓ","Ẕ",
    "ẕ","ẖ","ẗ","ẘ","ẙ","ẚ","ẛ","ẜ","ẝ","ẞ","ẟ","Ạ",
    "ạ","Ả","ả","Ấ","ấ","Ầ","ầ","Ẩ","ẩ","Ẫ","ẫ","Ậ",
    "ậ","Ắ","ắ","Ằ","ằ","Ẳ","ẳ","Ẵ","ẵ","Ặ","ặ","Ẹ",
    "ẹ","Ẻ","ẻ","Ẽ","ẽ","Ế","ế","Ề","ề","Ể","ể","Ễ",
    "ễ","Ệ","ệ","Ỉ","ỉ","Ị","ị","Ọ","ọ","Ỏ","ỏ","Ố",
    "ố","Ồ","ồ","Ổ","ổ","Ỗ","ỗ","Ộ","ộ","Ớ","ớ","Ờ",
    "ờ","Ở","ở","Ỡ","ỡ","Ợ","ợ","Ụ","ụ","Ủ","ủ","Ứ",
    "ứ","Ừ","ừ","Ử","ử","Ữ","ữ","Ự","ự","Ỳ","ỳ","Ỵ",
    "ỵ","Ỷ","ỷ","Ỹ","ỹ","Ỻ","ỻ","Ỽ","ỽ","Ỿ","ỿ","ᾀ",
    "ᾁ","ᾂ","ᾃ","ᾄ","ᾅ","ᾆ","ᾇ","ᾈ","ᾉ","ᾊ","ᾋ","ᾌ",
    "ᾍ","ᾎ","ᾏ","ᾐ","ᾑ","ᾒ","ᾓ","ᾔ","ᾕ","ᾖ","ᾗ","ᾘ",
    "ᾙ","ᾚ","ᾛ","ᾜ","ᾝ","ᾞ","ᾟ","ᾠ","ᾡ","ᾢ","ᾣ","ᾤ",
    "ᾥ","ᾦ","ᾧ","ᾨ","ᾩ","ᾪ","ᾫ","ᾬ","ᾭ","ᾮ","ᾯ","ᾰ",
    "ᾱ","ᾲ","ᾳ","ᾴ","ᾶ","ᾷ","Ᾰ","Ᾱ","Ὰ","Ά","ᾼ","ι",
    "ῂ","ῃ","ῄ","ῆ","ῇ","Ὲ","Έ","Ὴ","Ή","ῌ","ῐ","ῑ",
    "ῒ","ΐ","ῖ","ῗ","Ῐ","Ῑ","Ὶ","Ί","ῠ","ῡ","ῢ","ΰ",
    "ῤ","ῥ","ῦ","ῧ","Ῠ","Ῡ","Ὺ","Ύ","Ῥ","ῲ","ῳ","ῴ",
    "ῶ","ῷ","Ὸ","Ό","Ὼ","Ώ","ῼ","Ↄ","ↄ","Ⓐ","Ⓑ","Ⓒ",
    "Ⓓ","Ⓔ","Ⓕ","Ⓖ","Ⓗ","Ⓘ","Ⓙ","Ⓚ","Ⓛ","Ⓜ","Ⓝ","Ⓞ",
    "Ⓟ","Ⓠ","Ⓡ","Ⓢ","Ⓣ","Ⓤ","Ⓥ","Ⓦ","Ⓧ","Ⓨ","Ⓩ","ⓐ",
    "ⓑ","ⓒ","ⓓ","ⓔ","ⓕ","ⓖ","ⓗ","ⓘ","ⓙ","ⓚ","ⓛ","ⓜ",
    "ⓝ","ⓞ","ⓟ","ⓠ","ⓡ","ⓢ","ⓣ","ⓤ","ⓥ","ⓦ","ⓧ","ⓨ",
    "ⓩ","Ⲁ","ⲁ","Ⲃ","ⲃ","Ⲅ","ⲅ","Ⲇ","ⲇ","Ⲉ","ⲉ","Ⲋ",
    "ⲋ","Ⲍ","ⲍ","Ⲏ","ⲏ","Ⲑ","ⲑ","Ⲓ","ⲓ","Ⲕ","ⲕ","Ⲗ",
    "ⲗ","Ⲙ","ⲙ","Ⲛ","ⲛ","Ⲝ","ⲝ","Ⲟ","ⲟ","Ⲡ","ⲡ","Ⲣ",
    "ⲣ","Ⲥ","ⲥ","Ⲧ","ⲧ","Ⲩ","ⲩ","Ⲫ","ⲫ","Ⲭ","ⲭ","Ⲯ",
    "ⲯ","Ⲱ","ⲱ","Ⲳ","ⲳ","Ⲵ","ⲵ","Ⲷ","ⲷ","Ⲹ","ⲹ","Ⲻ",
    "ⲻ","Ⲽ","ⲽ","Ⲿ","ⲿ","Ⳁ","ⳁ","Ⳃ","ⳃ","Ⳅ","ⳅ","Ⳇ",
    "ⳇ","Ⳉ","ⳉ","Ⳋ","ⳋ","Ⳍ","ⳍ","Ⳏ","ⳏ","Ⳑ","ⳑ","Ⳓ",
    "ⳓ","Ⳕ","ⳕ","Ⳗ","ⳗ","Ⳙ","ⳙ","Ⳛ","ⳛ","Ⳝ","ⳝ","Ⳟ",
    "ⳟ","Ⳡ","ⳡ","Ⳣ","ⳣ","ⳤ","Ⳬ","ⳬ","Ⳮ","ⳮ","Ⳳ","ⳳ",
    "Ꚁ","ꚁ","Ꚃ","ꚃ","Ꚅ","ꚅ","Ꚇ","ꚇ","Ꚉ","ꚉ","Ꚋ","ꚋ",
    "Ꚍ","ꚍ","Ꚏ","ꚏ","Ꚑ","ꚑ","Ꚓ","ꚓ","Ꚕ","ꚕ","Ꚗ","ꚗ",
    "Ꚙ","ꚙ","Ꚛ","ꚛ","Ꞁ","ꞁ","Ꞃ","ꞃ","Ꞅ","ꞅ","Ꞇ","ꞇ",
    "Ꞌ","ꞌ","Ɥ","ꞎ","Ꞑ","ꞑ","Ꞓ","ꞓ","ꞔ","ꞕ","Ꞗ","ꞗ",
    "Ꞙ","ꞙ","Ꞛ","ꞛ","Ꞝ","ꞝ","Ꞟ","ꞟ","Ꞡ","ꞡ","Ꞣ","ꞣ",
    "Ꞥ","ꞥ","Ꞧ","ꞧ","Ꞩ","ꞩ","Ɦ","Ɜ","Ɡ","Ɬ","Ɪ","ꞯ",
    "Ʞ","Ʇ","Ʝ","Ꭓ","Ꞵ","ꞵ","Ꞷ","ꞷ","Ꞹ","ꞹ","Ꞻ","ꞻ",
    "Ꞽ","ꞽ","Ꞿ","ꞿ","Ꟁ","ꟁ","Ꟃ","ꟃ","Ꞔ","Ʂ","Ᶎ","Ꟈ",
    "ꟈ","Ꟊ","ꟊ","Ɤ","Ꟍ","ꟍ","꟎","꟏","Ꟑ","ꟑ","꟒","ꟓ",
    "꟔","ꟕ","Ꟗ","ꟗ","Ꟙ","ꟙ","Ꟛ","ꟛ","Ƛ","Ꟶ","ꟶ","ꟺ",
    "ꮀ","ꮁ","ꮂ","ꮃ","ꮄ","ꮅ","ꮆ","ꮇ","ꮈ","ꮉ","ꮊ","ꮋ",
    "ꮌ","ꮍ","ꮎ","ꮏ","ꮐ","ꮑ","ꮒ","ꮓ","ꮔ","ꮕ","ꮖ","ꮗ",
    "ꮘ","ꮙ","ꮚ","ꮛ","ꮜ","ꮝ","ꮞ","ꮟ","ꮠ","ꮡ","ꮢ","ꮣ",
    "ꮤ","ꮥ","ꮦ","ꮧ","ꮨ","ꮩ","ꮪ","ꮫ","ꮬ","ꮭ","ꮮ","ꮯ",
    "ꮰ","ꮱ","ꮲ","ꮳ","ꮴ","ꮵ","ꮶ","ꮷ","ꮸ","ꮹ","ꮺ","ꮻ",
    "ꮼ","ꮽ","ꮾ","ꮿ" }
  \cup SmallEscape
CaseIgnorable ==
  { "'",".",":","^","¨","­","¯","´","·","¸","ʰ","ʱ",
    "ʲ","ʳ","ʴ","ʵ","ʶ","ʷ","ʸ","ʹ","ʺ","ʻ","ʼ","ʽ",
    "ʾ","ʿ","ˀ","ˁ","˂","˃","˄","˅","ˆ","ˇ","ˈ","ˉ",
    "ˊ","ˋ","ˌ","ˍ","ˎ","ˏ","ː","ˑ","˒","˓","˔","˕",
    "˖","˗","˘","˙","˚","˛","˜","˝","˞","˟","ˠ","ˡ",
    "ˢ","ˣ","ˤ","˥","˦","˧","˨","˩","˪","˫","ˬ","˭",
    "ˮ","˯","˰","˱","˲","˳","˴","˵","˶","˷","˸","˹",
    "˺","˻","˼","˽","˾","˿","΄","΅","·","҃","҄","҅",
    "҆","҇","҈","҉","֑","֒","֓","֔","֕","֖","֗","֘",
    "֙","֚","֛","֜","֝","֞","֟","֠","֡","֢","֣","֤",
    "֥","֦","֧","֨","֩","֪","֫","֬","֭","֮","֯","ְ",
    "ֱ","ֲ","ֳ","ִ","ֵ","ֶ","ַ","ָ","ֹ","ֺ","ֻ","ּ",
    "ֽ","ֿ","ׁ","ׂ","ׄ","ׅ","ׇ","״","ۖ","ۗ","ۘ","ۙ",
    "ۚ","ۛ","ۜ","۝","۟","۠","ۡ","ۢ","ۣ","ۤ","ۥ","ۦ",
    "ۧ","ۨ","۪","۫","۬","ۭ","ަ","ާ","ި","ީ","ު","ޫ",
    "ެ","ޭ","ޮ","ޯ","ް","߫","߬","߭","߮","߯","߰","߱",
    "߲","߳","ߴ","ߵ","ߺ","߽","࢈","࢐","࢑","ࢗ","࢘","࢙",
    "࢚","࢛","࢜","࢝","࢞","࢟","ࣉ","࣊","࣋","࣌","࣍","࣎",
    "࣏","࣐","࣑","࣒","࣓","ࣔ","ࣕ","ࣖ","ࣗ","ࣘ","ࣙ","ࣚ",
    "ࣛ","ࣜ","ࣝ","ࣞ","ࣟ","࣠","࣡","࣢","ࣣ","ࣤ","ࣥ","ࣦ",
    "ࣧ","ࣨ","ࣩ","࣪","࣫","࣬","࣭","࣮","࣯","ࣰ","ࣱ","ࣲ",
    "ࣳ","ࣴ","ࣵ","ࣶ","ࣷ","ࣸ","ࣹ","ࣺ","ࣻ","ࣼ","ࣽ","ࣾ",
    "ࣿ","ঁ","়","ু","ূ","ৃ","ৄ","্","ৢ","ৣ","৾","ઁ",
    "ં","઼","ુ","ૂ","ૃ","ૄ","ૅ","ે","ૈ","્","ૢ","ૣ",
    "ૺ","ૻ","ૼ","૽","૾","૿","ஂ","ீ","்","ಁ","಼","ಿ",
    "ೆ","ೌ","್","ೢ","ೣ","ඁ","්","ි","ී","ු","ූ","ັ",
    "ິ","ີ","ຶ","ື","ຸ","ູ","຺","ົ","ຼ","ໆ","່","້",
    "໊","໋","໌","ໍ","໎","ྀ","ཱྀ","ྂ","ྃ","྄","྆","྇",
    "ྍ","ྎ","ྏ","ྐ","ྑ","ྒ","ྒྷ","ྔ","ྕ","ྖ","ྗ","ྙ",
    "ྚ","ྛ","ྜ","ྜྷ","ྞ","ྟ","ྠ","ྡ","ྡྷ","ྣ","ྤ","ྥ",
    "ྦ","ྦྷ","ྨ","ྩ","ྪ","ྫ","ྫྷ","ྭ","ྮ","ྯ","ྰ","ྱ",
    "ྲ","ླ","ྴ","ྵ","ྶ","ྷ","ྸ","ྐྵ","ྺ","ྻ","ྼ","࿆",
    "ႂ","ႅ","ႆ","ႍ","ႝ","ჼ","឴","឵","ិ","ី","ឹ","ឺ",
    "ុ","ូ","ួ","ំ","៉","៊","់","៌","៍","៎","៏","័",
    "៑","្","៓","ៗ","៝","ᢅ","ᢆ","ᢩ","ᪧ","᪰","᪱","᪲",
    "᪳","᪴","᪵","᪶","᪷","᪸","᪹","᪺","᪻","᪼","᪽","᪾",
    "ᪿ","ᫀ","᫁","᫂","᫃","᫄","᫅","᫆","᫇","᫈","᫉","᫊",
    "᫋","ᫌ","ᫍ","ᫎ","᫏","᫐","᫑","᫒","᫓","᫔","᫕","᫖",
    "᫗","᫘","᫙","᫚","᫛","᫜","᫝","᫠","᫡","᫢","᫣","᫤",
    "᫥","᫦","᫧","᫨","᫩","᫪","᫫","ᮀ","ᮁ","ᮢ","ᮣ","ᮤ",
    "ᮥ","ᮨ","ᮩ","᮫","ᮬ","ᮭ","᯦","ᯨ","ᯩ","ᯭ","ᯯ","ᯰ",
    "ᯱ","᳐","᳑","᳒","᳔","᳕","᳖","᳗","᳘","᳙","᳚","᳛",
    "᳜","᳝","᳞","᳟","᳠","᳢","᳣","᳤","᳥","᳦","᳧","᳨",
    "᳭","᳴","᳸","᳹","ᶛ","ᶜ","ᶝ","ᶞ","ᶟ","ᶠ","ᶡ","ᶢ",
    "ᶣ","ᶤ","ᶥ","ᶦ","ᶧ","ᶨ","ᶩ","ᶪ","ᶫ","ᶬ","ᶭ","ᶮ",
    "ᶯ","ᶰ","ᶱ","ᶲ","ᶳ","ᶴ","ᶵ","ᶶ","ᶷ","ᶸ","ᶹ","ᶺ",
    "ᶻ","ᶼ","ᶽ","ᶾ","ᶿ","᷀","᷁","᷂","᷃","᷄","᷅","᷆",
    "᷇","᷈","᷉","᷊","᷋","᷌","᷍","᷎","᷏","᷐","᷑","᷒",
    "ᷓ","ᷔ","ᷕ","ᷖ","ᷗ","ᷘ","ᷙ","ᷚ","ᷛ","ᷜ","ᷝ","ᷞ",
    "ᷟ","ᷠ","ᷡ","ᷢ","ᷣ","ᷤ","ᷥ","ᷦ","ᷧ","ᷨ","ᷩ","ᷪ",
    "ᷫ","ᷬ","ᷭ","ᷮ","ᷯ","ᷰ","ᷱ","ᷲ","ᷳ","ᷴ","᷵","᷶",
    "᷷","᷸","᷹","᷺","᷻","᷼","᷽","᷾","᷿","᾽","᾿","῀",
    "῁","῍","῎","῏","῝","῞","῟","῭","΅","`","´","῾",
    "ₐ","ₑ","ₒ","ₓ","ₔ","ₕ","ₖ","ₗ","ₘ","ₙ","ₚ","ₛ",
    "ₜ","⃐","⃑","⃒","⃓","⃔","⃕","⃖","⃗","⃘","⃙","⃚",
    "⃛","⃜","⃝","⃞","⃟","⃠","⃡","⃢","⃣","⃤","⃥","⃦",
    "⃧","⃨","⃩","⃪","⃫","⃬","⃭","⃮","⃯","⃰","⳯","⳰",
    "⳱","ⷠ","ⷡ","ⷢ","ⷣ","ⷤ","ⷥ","ⷦ","ⷧ","ⷨ","ⷩ","ⷪ",
    "ⷫ","ⷬ","ⷭ","ⷮ","ⷯ","ⷰ","ⷱ","ⷲ","ⷳ","ⷴ","ⷵ","ⷶ",
    "ⷷ","ⷸ","ⷹ","ⷺ","ⷻ","ⷼ","ⷽ","ⷾ","ⷿ","゙","゚","゛",
    "゜","ゝ","ゞ","ー","ヽ","ヾ","ꓸ","ꓹ","ꓺ","ꓻ","ꓼ","ꓽ",
    "ꚜ","ꚝ","ꚞ","ꚟ","꛰","꛱","ꞈ","꞉","꞊","꟱","ꟲ","ꟳ",
    "ꟴ","ꟸ","ꟹ","꣄","ꣅ","꣠","꣡","꣢","꣣","꣤","꣥","꣦",
    "꣧","꣨","꣩","꣪","꣫","꣬","꣭","꣮","꣯","꣰","꣱","ꣿ",
    "ꦀ","ꦁ","ꦂ","꦳","ꦶ","ꦷ","ꦸ","ꦹ","ꦼ","ꦽ","ꧏ","ꧥ",
    "ꧦ","ꪰ","ꪲ","ꪳ","ꪴ","ꪷ","ꪸ","ꪾ","꪿","꫁","ꫝ","ꫬ",
    "ꫭ","ꫳ","ꫴ","꫶","ꯥ","ꯨ","꯭","﮲","﮳","﮴","﮵","﮶",
    "﮷","﮸","﮹","﮺","﮻","﮼","﮽","﮾","﮿","﯀","﯁","﯂",
    "﻿","ﾞ","ﾟ","￣","￹","￺","￻" }

\* the lower-case mapping of one character: A-Z, the Latin-1 capitals and
\* the capitals of CapitalSeq and CapitalWithoutSmallSeq have a small
\* letter; every other character maps to itself
toLowerCaseChar(c) ==
  IF c \in Upper THEN LowerSeq[CHOOSE i \in 1..26 : UpperSeq[i] = c]
  ELSE IF c \in Latin1Upper
       THEN Latin1LowerSeq[CHOOSE i \in 1..Len(Latin1UpperSeq) :
                             Latin1UpperSeq[i] = c]
  ELSE IF c \in Capital
       THEN SmallSeq[CHOOSE i \in 1..Len(CapitalSeq) : CapitalSeq[i] = c]
  ELSE IF c \in CapitalWithoutSmall
       THEN SmallEscapeSeq[CHOOSE i \in 1..Len(CapitalWithoutSmallSeq) :
                             CapitalWithoutSmallSeq[i] = c]
  ELSE c

\* the capital sigma at position i of s is a final sigma: the nearest
\* character before it that is not case-ignorable is cased, and the nearest
\* one after it that is not case-ignorable, if there is one, is not cased
isFinalSigma(s, i) ==
  LET before == {j \in 1..(i - 1) : s[j] \notin CaseIgnorable}
      after  == {j \in (i + 1)..Len(s) : s[j] \notin CaseIgnorable}
  IN  /\ before # {}
      /\ s[SetMax(before)] \in Cased
      /\ after = {} \/ s[SetMin(after)] \notin Cased

\* String.prototype.toLowerCase: each character is mapped on its own, but
\* for a final capital sigma, which becomes the final small sigma
toLowerCase(s) ==
  [i \in 1..Len(s) |->
     IF s[i] = "Σ" /\ isFinalSigma(s, i) THEN "ς"
     ELSE toLowerCaseChar(s[i])]

\* String.prototype.trim: the text from its first to its last character
\* that is not white space
trim(s) ==
  LET first == CHOOSE i \in 1..(Len(s) + 1) :
                 /\ i = Len(s) + 1 \/ s[i] \notin Whitespace
                 /\ \A j \in 1..(i - 1) : s[j] \in Whitespace
      last  == CHOOSE i \in 0..Len(s) :
                 /\ i = 0 \/ s[i] \notin Whitespace
                 /\ \A j \in (i + 1)..Len(s) : s[j] \in Whitespace
  IN  IF first > last THEN <<>> ELSE SubSeq(s, first, last)

StartsWith(s, pre) ==
  /\ Len(s) >= Len(pre)
  /\ SubSeq(s, 1, Len(pre)) = pre

Drop(s, n) == SubSeq(s, n + 1, Len(s))

HttpScheme == <<"h","t","t","p",":","/","/">>
HttpsScheme == <<"h","t","t","p","s",":","/","/">>

\* t.replace(/^\s*https?:\/\//, "")
stripScheme(t) ==
  LET nonWs == {i \in 1..Len(t) : t[i] \notin Whitespace}
      lead  == IF nonWs = {} THEN Len(t) ELSE SetMin(nonWs) - 1
      rest  == Drop(t, lead)
  IN  IF StartsWith(rest, HttpsScheme) THEN Drop(rest, Len(HttpsScheme))
      ELSE IF StartsWith(rest, HttpScheme) THEN Drop(rest, Len(HttpScheme))
      ELSE t

\* t.replace(/\/+$/, "")
stripTrailingSlashes(t) ==
  LET keep == {i \in 1..Len(t) : t[i] # "/"}
  IN  IF keep = {} THEN <<>> ELSE SubSeq(t, 1, SetMax(keep))

(***************************************************************************)
(* Tagged JavaScript values.                                               *)
(***************************************************************************)
JNull == [type |-> "null"]
JStr(s) == [type |-> "string", val |-> s]
JArr(a) == [type |-> "array", val |-> a]

\* the string 'canceled' that p.group stores for a dismissed prompt
CanceledChars == <<"c","a","n","c","e","l","e","d">>
CanceledTok == "canceled"

(***************************************************************************)
(* normalizeDomain, on a string (a character sequence).  The empty string  *)
(* is falsy, like undefined and null.                                      *)
(***************************************************************************)
normalizeDomainStr(input) ==
  IF input = <<>> THEN JNull
  ELSE LET t == stripTrailingSlashes(stripScheme(toLowerCase(trim(input))))
       IN  IF t = <<>> THEN JNull ELSE JStr(t)

\* normalizeDomain on a tagged value (null or string)
normalizeDomain(input) ==
  IF input.type = "null" THEN JNull ELSE normalizeDomainStr(input.val)

(***************************************************************************)
(* domainLooksValid                                                        *)
(***************************************************************************)
\* a label as [a-z0-9-]{1,63}: a hyphen may end it
IsLabel_loose(s) ==
  /\ Len(s) >= 1
  /\ Len(s) <= MaxLabelMid + 2
  /\ \A i \in 1..Len(s) : s[i] \in AlNum \cup {"-"}

\* [a-z0-9]([a-z0-9-]{0,61}[a-z0-9])?   (flag i)
IsLabel(s) ==
  /\ Len(s) >= 1
  /\ Len(s) <= MaxLabelMid + 2
  /\ s[1] \in AlNum
  /\ s[Len(s)] \in AlNum
  /\ \A i \in 1..Len(s) : s[i] \in AlNum \cup {"-"}

\* /^(?!-)([a-z0-9]([a-z0-9-]{0,61}[a-z0-9])?\.)+[a-z]{2,}$/i
MatchesFqdn(val) ==
  LET dots == {i \in 1..Len(val) : val[i] = "."}
  IN  /\ dots # {}
      /\ LET last == SetMax(dots)
             tld  == Drop(val, last)
         IN  /\ Len(tld) >= MinTldLen
             /\ \A i \in 1..Len(tld) : tld[i] \in Letter
             /\ \A d \in dots :
                  LET before == {e \in dots : e < d}
                      from   == IF before = {} THEN 1 ELSE SetMax(before) + 1
                  IN  IsLabel(SubSeq(val, from, d - 1))

LocalhostChars == <<"l","o","c","a","l","h","o","s","t">>

\* /^(localhost|localhost:\d{1,5})$/i
MatchesLocalhost(val) ==
  LET low == toLowerCase(val)
  IN  \/ low = LocalhostChars
      \/ /\ StartsWith(low, LocalhostChars \o <<":">>)
         /\ LET port == Drop(low, Len(LocalhostChars) + 1)
            IN  /\ Len(port) >= 1
                /\ Len(port) <= MaxPortDigits
                /\ \A i \in 1..Len(port) : port[i] \in Digit

domainLooksValid(val) == MatchesFqdn(val) \/ MatchesLocalhost(val)

(***************************************************************************)
(* ProjectMetadata and the values around it.                               *)
(***************************************************************************)
Fields == <<"projectName", "network", "deploymentType",
            "frontendHosting", "domain", "integrations">>

TextFields == {"projectName", "domain"}
SelectFields == {"network", "deploymentType", "frontendHosting"}

FieldIndex(name) == CHOOSE i \in 1..Len(Fields) : Fields[i] = name

Networks == {"mainnet", "testnet"}
DeploymentTypes == {"vps", "local"}
FrontendHostings == {"same-vps", "vercel", "skip"}
Integrations == {"stripe", "auth"}

\* no ProjectMetadata object (before askAll builds one, and the value null)
NoMeta == [none |-> TRUE]
NoPrompt == [name |-> "none"]
NoSummary == [none |-> TRUE]
NoResults == <<>>

\* an optional argument that was not passed
JUndef == [type |-> "undefined"]
Undef == "undefined"

\* the symbol a dismissed prompt resolves to, and isCancel
CancelSymbol == [type |-> "symbol", description |-> "clack:cancel"]
isCancel(x) == x = CancelSymbol

\* the text "—" that formatSummary prints for an absent value
Dash == <<"--">>

(***************************************************************************)
(* formatSummary.  The summary is kept as the six rendered values.         *)
(* meta.integrations.join exists only on an array: on the string that a    *)
(* dismissed multiselect leaves behind, .length is 8 and .join is not a    *)
(* function, so the call throws a TypeError.                               *)
(***************************************************************************)
RECURSIVE join(_)
join(a) ==
  IF Len(a) = 0 THEN <<>>
  ELSE IF Len(a) = 1 THEN <<a[1]>>
  ELSE <<a[1], ", ">> \o join(Tail(a))

formatSummaryThrows(m) ==
  /\ m.integrations.type # "array"
  /\ Len(m.integrations.val) # 0

formatSummary(m) ==
  [ projectName     |-> m.projectName,
    network         |-> m.network,
    deploymentType  |-> IF m.deploymentType = "vps"
                        THEN "Hosted VPS" ELSE "Local only",
    frontendHosting |-> IF m.frontendHosting = "same-vps" THEN "Same VPS"
                        ELSE IF m.frontendHosting = "vercel" THEN "Vercel"
                        ELSE "Skip",
    domain          |-> IF m.domain.type = "null" \/ m.domain.val = <<>>
                        THEN Dash ELSE m.domain.val,
    integrations    |-> IF Len(m.integrations.val) # 0
                        THEN join(m.integrations.val) ELSE Dash ]

\* normalizeFrontendHosting without its rewrite
normalizeFrontendHosting_noop(m) == m

\* normalizeFrontendHosting with a rewrite that does not settle
normalizeFrontendHosting_toggle(m) ==
  IF m.deploymentType = "local" /\ m.frontendHosting = "same-vps"
  THEN [m EXCEPT !.frontendHosting = "vercel"]
  ELSE IF m.deploymentType = "local" /\ m.frontendHosting = "vercel"
  THEN [m EXCEPT !.frontendHosting = "same-vps"]
  ELSE m

(***************************************************************************)
(* normalizeFrontendHosting                                                *)
(***************************************************************************)
normalizeFrontendHosting(m) ==
  IF m.deploymentType = "local" /\ m.frontendHosting = "same-vps"
  THEN [m EXCEPT !.frontendHosting = "vercel"]
  ELSE m

(***************************************************************************)
(* The prompt factories.  A prompt is the record that is passed to         *)
(* p.text, p.select or p.multiselect; initialValue is a sequence: the      *)
(* characters of a text prompt, the one value of a select prompt, the      *)
(* values of a multiselect prompt.                                         *)
(***************************************************************************)
\* validate of the project name with the length limit off by one
validateProjectName_offByOne(v) ==
  \/ trim(v) = <<>>
  \/ length(v) > MaxNameLen + 1

validateProjectName(v) ==
  \* TRUE when validate returns a message
  \/ trim(v) = <<>>
  \/ length(v) > MaxNameLen

validateDomain(v) ==
  LET t == normalizeDomainStr(v)
  IN  /\ t # JNull
      /\ ~domainLooksValid(t.val)

promptsProjectName(initialValue) ==
  [ name |-> "projectName", kind |-> "text", options |-> <<>>,
    initialValue |-> IF initialValue = JUndef THEN <<>> ELSE initialValue.val,
    error |-> FALSE ]

\* prompts.network with mainnet preselected
promptsNetwork_mainnetDefault(initialValue) ==
  [ name |-> "network", kind |-> "select",
    options |-> <<"mainnet", "testnet">>,
    initialValue |-> <<IF initialValue = Undef THEN "mainnet" ELSE initialValue>>,
    error |-> FALSE ]

promptsNetwork(initialValue) ==
  [ name |-> "network", kind |-> "select",
    options |-> <<"mainnet", "testnet">>,
    initialValue |-> <<IF initialValue = Undef THEN "testnet" ELSE initialValue>>,
    error |-> FALSE ]

promptsDeploymentType(initialValue) ==
  [ name |-> "deploymentType", kind |-> "select",
    options |-> <<"vps", "local">>,
    initialValue |-> <<IF initialValue = Undef THEN "vps" ELSE initialValue>>,
    error |-> FALSE ]

promptsFrontendHosting(deploymentType, initialValue) ==
  [ name |-> "frontendHosting", kind |-> "select",
    options |-> IF deploymentType = "local"
                THEN <<"vercel", "skip">>
                ELSE <<"same-vps", "vercel", "skip">>,
    initialValue |-> <<IF initialValue = Undef
                       THEN (IF deploymentType = "local" THEN "vercel" ELSE "same-vps")
                       ELSE initialValue>>,
    error |-> FALSE ]

promptsDomain(initialValue) ==
  [ name |-> "domain", kind |-> "text", options |-> <<>>,
    initialValue |-> IF initialValue \in {JUndef, JNull} THEN <<>> ELSE initialValue.val,
    error |-> FALSE ]

promptsIntegrations(initialValues) ==
  [ name |-> "integrations", kind |-> "multiselect",
    options |-> <<"stripe", "auth">>,
    initialValue |-> IF initialValues = JUndef THEN <<>> ELSE initialValues.val,
    error |-> FALSE ]

\* the review prompt of editLoop
ReviewPrompt ==
  [ name |-> "review", kind |-> "select",
    options |-> <<"confirm", "edit", "start-over", "cancel">>,
    initialValue |-> <<"confirm">>, error |-> FALSE ]

\* the field-selection prompt of editLoop
FieldPrompt ==
  [ name |-> "field", kind |-> "select", options |-> Fields,
    initialValue |-> <<>>, error |-> FALSE ]

(***************************************************************************)
(* What the user can enter at a prompt.                                    *)
(***************************************************************************)
ScenarioADomain == <<"H","T","T","P","S",":","/","/","A","P","I",".",
                     "E","x","a","m","p","l","e",".","c","o","m","/">>
NotADomain == <<"n","o","t"," ","a"," ","d","o","m","a","i","n","!">>

\* the last three are 64 code units in 63 characters (one of them
\* supplementary), 65 code units, and 33 supplementary characters, which
\* are 66 code units
NameInputs ==
  { <<>>, <<" ">>, <<" ","g","w"," ">>,
    Rep("a", MaxNameLen - 2) \o <<Supplementary>>,
    Rep("a", MaxNameLen + 1),
    Rep(Supplementary, MaxNameLen \div 2 + 1) }

DomainInputs ==
  { <<>>, <<" ">>, ScenarioADomain, NotADomain }

\* arrays a multiselect over stripe and auth can resolve to
IntegrationChoices ==
  { <<>>, <<"auth">>, <<"stripe","auth">> }

Range(f) == {f[i] : i \in DOMAIN f}

\* the values the user can submit at prompt p; the text of a text prompt
\* starts as its initialValue and can be replaced by anything typed
Answers(p) ==
  IF p.kind = "select" THEN Range(p.options)
  ELSE IF p.kind = "multiselect" THEN {JArr(a) : a \in IntegrationChoices}
  ELSE IF p.name = "projectName" THEN NameInputs \cup {p.initialValue}
  ELSE DomainInputs \cup {p.initialValue}

\* validate() of the prompt returns a message: the prompt stays open
Rejected(p, v) ==
  \/ p.name = "projectName" /\ validateProjectName(v)
  \/ p.name = "domain" /\ validateDomain(v)

\* what a prompt resolves to: a submitted value, or CancelSymbol
Resolved(v) == [type |-> "value", val |-> v]

(***************************************************************************)
(* p.group as askAll calls it (metadata.ts 151-167): the prompts run in    *)
(* the order of the object's keys; a prompt that resolves to the cancel    *)
(* symbol is recorded as the string 'canceled', onCancel is called (here   *)
(* it only prints "Setup cancelled.") and the group goes on with the next  *)
(* prompt; the group resolves to the results object.                       *)
(***************************************************************************)
CanceledValue(name) ==
  IF name \in SelectFields THEN CanceledTok
  ELSE IF name = "integrations" THEN JStr(CanceledChars)
  ELSE CanceledChars

GroupPrompt(name, res) ==
  CASE name = "projectName"     -> promptsProjectName(JUndef)
    [] name = "network"         -> promptsNetwork(Undef)
    [] name = "deploymentType"  -> promptsDeploymentType(Undef)
    [] name = "frontendHosting" -> promptsFrontendHosting(res.deploymentType, Undef)
    [] name = "domain"          -> promptsDomain(JUndef)
    [] name = "integrations"    -> promptsIntegrations(JUndef)

GroupRecord(name, value, res) ==
  IF isCancel(value) THEN (name :> CanceledValue(name)) @@ res
  ELSE (name :> value.val) @@ res

(***************************************************************************)
(* askAll after the group resolved (metadata.ts 169-183)                   *)
(***************************************************************************)
askAllMeta(result, now) ==
  normalizeFrontendHosting(
    [ projectName     |-> trim(result.projectName),
      network         |-> result.network,
      deploymentType  |-> result.deploymentType,
      frontendHosting |-> result.frontendHosting,
      domain          |-> normalizeDomainStr(result.domain),
      integrations    |-> result.integrations,
      createdAtIso    |-> now ])

(***************************************************************************)
(* The top of editLoop's while loop (metadata.ts 188-199): the summary is  *)
(* rendered, then the review prompt opens.  A TypeError of formatSummary   *)
(* leaves editLoop and collectProjectMetadata as a rejected promise.       *)
(***************************************************************************)
EnterReview(m) ==
  /\ meta' = m
  /\ IF formatSummaryThrows(m)
     THEN /\ pc' = "done"
          /\ outcome' = "throw"
          /\ prompt' = NoPrompt
          /\ UNCHANGED <<summary, next, returned>>
     ELSE /\ pc' = "review"
          /\ summary' = formatSummary(m)
          /\ prompt' = ReviewPrompt
          /\ UNCHANGED <<next, outcome, returned>>

\* collectProjectMetadata returns null (metadata.ts 260, 267-270)
ReturnNull ==
  /\ pc' = "done"
  /\ outcome' = "null"
  /\ prompt' = NoPrompt
  /\ UNCHANGED <<meta, summary, returned>>

\* the continuation of askAll and collectProjectMetadata once the prompt
\* of the group resolved with value; createdAtIso is the reading of the
\* clock at that moment, any of Timestamps
GroupContinue(value) ==
  LET name == prompt.name
      res  == GroupRecord(name, value, results)
  IN  /\ groupCancelled' = (groupCancelled \/ isCancel(value))
      /\ UNCHANGED <<pass, procVars, walletVars, consoleLog, fnVars>>
      /\ normalizerRan' = (name = Fields[Len(Fields)] /\ ~isCancel(res))
      /\ IF name # Fields[Len(Fields)]
         THEN /\ results' = res
              /\ prompt' = GroupPrompt(Fields[FieldIndex(name) + 1], res)
              /\ UNCHANGED <<pc, meta, summary, next, outcome, returned>>
         ELSE /\ results' = NoResults
              /\ IF isCancel(res)
                 THEN ReturnNull /\ UNCHANGED next
                 ELSE \E now \in Timestamps : EnterReview(askAllMeta(res, now))

(***************************************************************************)
(* State machine: main and runPreflightOrExit.  The four checks probe the  *)
(* environment (process.versions.node, git, docker, pocketd): each is an   *)
(* input of the model, passed or failed.                                   *)
(***************************************************************************)
PreflightChecks == {"Node.js", "Git", "Docker", "pocketd"}
\* checkNode(true), checkGit(true), checkDocker(false), checkPocketd(true)
RequiredChecks == {"Node.js", "Git", "pocketd"}

NoArg == [none |-> TRUE]

\* pressEnterToContinue: p.text
PressEnterPrompt ==
  [ name |-> "pressEnter", kind |-> "text", options |-> <<>>,
    initialValue |-> <<>>, error |-> FALSE ]

\* runPreflightOrExit: p.confirm, initialValue false
ContinuePrompt ==
  [ name |-> "continue", kind |-> "confirm", options |-> <<>>,
    initialValue |-> <<"false">>, error |-> FALSE ]

\* process.exit(code)
Exit(code) ==
  /\ mainPc' = "exited"
  /\ exitCode' = code
  /\ prompt' = NoPrompt
  /\ UNCHANGED <<isTTY, walletNetwork>>

\* main calls collectProjectMetadata: askAll opens its first prompt
CollectStart ==
  /\ mainPc' = "collect"
  /\ pc' = "askAll"
  /\ prompt' = GroupPrompt("projectName", NoResults)
  /\ pass' = 1
  /\ UNCHANGED <<isTTY, exitCode, walletNetwork>>

\* the notice of the branch without a terminal (console.log)
NoTerminalNotice ==
  "The Pocket 1-Click Gateway Launcher requires an interactive terminal."

\* main without the test of isTTY: the first prompt opens on any terminal
MainStart_anyTerminal ==
  /\ mainPc = "start"
  /\ mainPc' = "pressEnter"
  /\ prompt' = PressEnterPrompt
  /\ UNCHANGED <<isTTY, exitCode, walletNetwork>>
  /\ lastEvent' = "MainStart"
  /\ UNCHANGED <<pc, results, meta, summary, next, outcome, returned,
                 groupCancelled, pass, normalizerRan, failures, walletVars,
                 consoleLog, fnVars>>

\* main runs up to its first prompt, or to its end without a terminal
MainStart ==
  /\ mainPc = "start"
  /\ IF isTTY
     THEN /\ mainPc' = "pressEnter"
          /\ prompt' = PressEnterPrompt
          /\ UNCHANGED <<isTTY, exitCode, walletNetwork, consoleLog>>
     ELSE /\ consoleLog' = Append(consoleLog, NoTerminalNotice)
          /\ Exit("0")
  /\ lastEvent' = "MainStart"
  /\ UNCHANGED <<pc, results, meta, summary, next, outcome, returned,
                 groupCancelled, pass, normalizerRan, failures, walletVars,
                 fnVars>>

\* Enter at pressEnterToContinue: runPreflightOrExit runs its checks; it
\* returns, exits with 1, or asks whether to continue
MainPressEnter ==
  /\ mainPc = "pressEnter"
  /\ \E ok \in [PreflightChecks -> BOOLEAN] :
       LET failed == {c \in PreflightChecks : ~ok[c]}
       IN  IF failed = {}
           THEN /\ CollectStart
                /\ failures' = {}
           ELSE IF failed \cap RequiredChecks # {}
           THEN /\ Exit("1")
                /\ failures' = failed
                /\ UNCHANGED <<pc, pass>>
           ELSE /\ mainPc' = "preflightConfirm"
                /\ prompt' = ContinuePrompt
                /\ failures' = failed
                /\ UNCHANGED <<pc, pass, isTTY, exitCode, walletNetwork>>
  /\ lastEvent' = "MainPressEnter"
  /\ UNCHANGED <<results, meta, summary, next, outcome, returned,
                 groupCancelled, normalizerRan, walletVars,
                 consoleLog, fnVars>>

\* pressEnterToContinue dismissed: process.exit(1)
MainPressEnterCancel ==
  /\ mainPc = "pressEnter"
  /\ Exit("1")
  /\ lastEvent' = "MainPressEnterCancel"
  /\ UNCHANGED <<pc, results, meta, summary, next, outcome, returned,
                 groupCancelled, pass, normalizerRan, failures, walletVars,
                 consoleLog, fnVars>>

\* the continue prompt is answered: yes returns from runPreflightOrExit,
\* no calls process.exit(1)
MainPreflightAnswer ==
  /\ mainPc = "preflightConfirm"
  /\ \E cont \in BOOLEAN :
       IF cont
       THEN /\ CollectStart
            /\ failures' = {}
       ELSE /\ Exit("1")
            /\ UNCHANGED <<pc, pass, failures>>
  /\ lastEvent' = "MainPreflightAnswer"
  /\ UNCHANGED <<results, meta, summary, next, outcome, returned,
                 groupCancelled, normalizerRan, walletVars,
                 consoleLog, fnVars>>

\* the continue prompt tested with !cont only: the cancel symbol is truthy,
\* so a dismissed prompt returns from runPreflightOrExit
MainPreflightCancel_continues ==
  /\ mainPc = "preflightConfirm"
  /\ CollectStart
  /\ failures' = {}
  /\ lastEvent' = "MainPreflightCancel"
  /\ UNCHANGED <<results, meta, summary, next, outcome, returned,
                 groupCancelled, normalizerRan, walletVars,
                 consoleLog, fnVars>>

\* the continue prompt is dismissed: process.exit(1)
MainPreflightCancel ==
  /\ mainPc = "preflightConfirm"
  /\ Exit("1")
  /\ lastEvent' = "MainPreflightCancel"
  /\ UNCHANGED <<pc, results, meta, summary, next, outcome, returned,
                 groupCancelled, pass, normalizerRan, failures, walletVars,
                 consoleLog, fnVars>>

(***************************************************************************)
(* State machine: collectProjectMetadata.                                  *)
(***************************************************************************)
\* collectProjectMetadata has not been called
IdleWizard ==
  /\ pc = "idle"
  /\ prompt = NoPrompt
  /\ results = NoResults
  /\ meta = NoMeta
  /\ summary = NoSummary
  /\ next = "none"
  /\ outcome = "pending"
  /\ returned = NoMeta
  /\ groupCancelled = FALSE
  /\ pass = 0
  /\ lastEvent = "Init"
  /\ normalizerRan = FALSE

\* the answers before the first prompt
NoWallet ==
  [ gatewayName |-> <<>>, gatewayAddress |-> <<>>,
    applicationName |-> <<>>, applicationAddress |-> <<>>,
    choice |-> "undefined" ]

\* runWalletSetup awaits nothing but its prompts
NoAwait == [on |-> "none"]

\* runWalletSetup has not been called
IdleWallet ==
  /\ walletPc = "idle"
  /\ wallet = NoWallet
  /\ walletResult = NoMeta
  /\ walletAwait = NoAwait

\* the process starts: main has not run yet
Init ==
  /\ IdleWizard
  /\ isTTY \in BOOLEAN
  /\ mainPc = "start"
  /\ failures = {}
  /\ exitCode = "none"
  /\ walletNetwork = "none"
  /\ consoleLog = <<>>
  /\ IdleWallet
  /\ fnArg = NoArg
  /\ fnRes = <<>>

\* the user submits a value the prompt accepts, in the initial pass
GroupSubmit ==
  /\ pc = "askAll"
  /\ \E v \in Answers(prompt) :
       /\ ~Rejected(prompt, v)
       /\ GroupContinue(Resolved(v))
  /\ lastEvent' = "GroupSubmit"

\* the user submits a value validate() rejects: the prompt stays open
GroupInvalid ==
  /\ pc = "askAll"
  /\ \E v \in Answers(prompt) : Rejected(prompt, v)
  /\ prompt' = [prompt EXCEPT !.error = TRUE]
  /\ lastEvent' = "GroupInvalid"
  /\ normalizerRan' = FALSE
  /\ UNCHANGED <<procVars, walletVars, consoleLog, fnVars>>
  /\ UNCHANGED <<pc, results, meta, summary, next, outcome, returned,
                 groupCancelled, pass>>

\* the user dismisses a prompt of the initial pass
GroupCancel ==
  /\ pc = "askAll"
  /\ GroupContinue(CancelSymbol)
  /\ lastEvent' = "GroupCancel"

\* "confirm" returning a rebuilt object instead of meta itself
ReviewConfirm_rebuild ==
  /\ pc = "review"
  /\ next' = "confirm"
  /\ pc' = "done"
  /\ outcome' = "meta"
  /\ returned' = [meta EXCEPT !.integrations = JArr(<<>>)]
  /\ prompt' = NoPrompt
  /\ lastEvent' = "ReviewConfirm"
  /\ normalizerRan' = FALSE
  /\ UNCHANGED <<procVars, walletVars, consoleLog, fnVars>>
  /\ UNCHANGED <<results, meta, summary, groupCancelled, pass>>

\* review prompt: "confirm" (metadata.ts 202, 263-266)
ReviewConfirm ==
  /\ pc = "review"
  /\ next' = "confirm"
  /\ pc' = "done"
  /\ outcome' = "meta"
  /\ returned' = meta
  /\ prompt' = NoPrompt
  /\ lastEvent' = "ReviewConfirm"
  /\ normalizerRan' = FALSE
  /\ UNCHANGED <<procVars, walletVars, consoleLog, fnVars>>
  /\ UNCHANGED <<results, meta, summary, groupCancelled, pass>>

\* review prompt: "cancel" chosen, or the prompt dismissed (200, 204)
ReviewCancel ==
  /\ pc = "review"
  /\ next' = "cancel"
  /\ ReturnNull
  /\ lastEvent' = "ReviewCancel"
  /\ normalizerRan' = FALSE
  /\ UNCHANGED <<procVars, walletVars, consoleLog, fnVars>>
  /\ UNCHANGED <<results, groupCancelled, pass>>

\* "start-over" that seeds the next pass from the old configuration
ReviewStartOver_keep ==
  /\ pc = "review"
  /\ pass' = IF pass < MaxPasses THEN pass + 1 ELSE pass
  /\ pc' = "askAll"
  /\ results' = NoResults
  /\ prompt' = promptsProjectName(JStr(meta.projectName))
  /\ meta' = NoMeta
  /\ summary' = NoSummary
  /\ groupCancelled' = FALSE
  /\ next' = "start-over"
  /\ lastEvent' = "ReviewStartOver"
  /\ normalizerRan' = FALSE
  /\ UNCHANGED <<procVars, walletVars, consoleLog, fnVars>>
  /\ UNCHANGED <<outcome, returned>>

\* review prompt: "start-over": collectProjectMetadata calls askAll again
ReviewStartOver ==
  /\ pc = "review"
  /\ pass' = IF pass < MaxPasses THEN pass + 1 ELSE pass
  /\ pc' = "askAll"
  /\ results' = NoResults
  /\ prompt' = GroupPrompt("projectName", NoResults)
  /\ meta' = NoMeta
  /\ summary' = NoSummary
  /\ groupCancelled' = FALSE
  /\ next' = "start-over"
  /\ lastEvent' = "ReviewStartOver"
  /\ normalizerRan' = FALSE
  /\ UNCHANGED <<procVars, walletVars, consoleLog, fnVars>>
  /\ UNCHANGED <<outcome, returned>>

\* review prompt: "edit": the field-selection prompt opens
ReviewEdit ==
  /\ pc = "review"
  /\ pc' = "pickField"
  /\ prompt' = FieldPrompt
  /\ lastEvent' = "ReviewEdit"
  /\ normalizerRan' = FALSE
  /\ UNCHANGED <<procVars, walletVars, consoleLog, fnVars>>
  /\ UNCHANGED <<results, meta, summary, next, outcome, returned,
                 groupCancelled, pass>>

\* the re-prompt of one field, seeded from meta (metadata.ts 220-245)
EditPrompt(field, m) ==
  CASE field = "projectName"     -> promptsProjectName(JStr(m.projectName))
    [] field = "network"         -> promptsNetwork(m.network)
    [] field = "deploymentType"  -> promptsDeploymentType(m.deploymentType)
    [] field = "frontendHosting" ->
         promptsFrontendHosting(m.deploymentType,
           IF m.deploymentType = "local" /\ m.frontendHosting = "same-vps"
           THEN "vercel" ELSE m.frontendHosting)
    [] field = "domain"          -> promptsDomain(m.domain)
    [] field = "integrations"    -> promptsIntegrations(m.integrations)

\* the assignments of the re-prompts, without the call of
\* normalizeFrontendHosting after the one of deploymentType
EditApply_unnormalized(field, v, m) ==
  CASE field = "projectName"     -> [m EXCEPT !.projectName = trim(v)]
    [] field = "network"         -> [m EXCEPT !.network = v]
    [] field = "deploymentType"  -> [m EXCEPT !.deploymentType = v]
    [] field = "frontendHosting" -> [m EXCEPT !.frontendHosting = v]
    [] field = "domain"          -> [m EXCEPT !.domain = normalizeDomainStr(v)]
    [] field = "integrations"    -> [m EXCEPT !.integrations = v]

\* the assignments of the re-prompts, with a deploymentType edit that also
\* puts frontendHosting back to the default of the new deployment type
EditApply_rehost(field, v, m) ==
  CASE field = "projectName"     -> [m EXCEPT !.projectName = trim(v)]
    [] field = "network"         -> [m EXCEPT !.network = v]
    [] field = "deploymentType"  ->
         [m EXCEPT !.deploymentType = v,
                   !.frontendHosting = IF v = "local" THEN "vercel" ELSE "same-vps"]
    [] field = "frontendHosting" -> [m EXCEPT !.frontendHosting = v]
    [] field = "domain"          -> [m EXCEPT !.domain = normalizeDomainStr(v)]
    [] field = "integrations"    -> [m EXCEPT !.integrations = v]

\* the assignments of the re-prompts, each followed by a new reading of
\* the clock
EditApply_restamp(field, v, m) ==
  LET stamped == [m EXCEPT !.createdAtIso = (m.createdAtIso + 1) % (MaxClock + 1)]
  IN  CASE field = "projectName"     -> [stamped EXCEPT !.projectName = trim(v)]
        [] field = "network"         -> [stamped EXCEPT !.network = v]
        [] field = "deploymentType"  ->
             normalizeFrontendHosting([stamped EXCEPT !.deploymentType = v])
        [] field = "frontendHosting" -> [stamped EXCEPT !.frontendHosting = v]
        [] field = "domain"          -> [stamped EXCEPT !.domain = normalizeDomainStr(v)]
        [] field = "integrations"    -> [stamped EXCEPT !.integrations = v]

\* the assignment an accepted re-prompt makes (metadata.ts 222-245)
EditApply(field, v, m) ==
  CASE field = "projectName"     -> [m EXCEPT !.projectName = trim(v)]
    [] field = "network"         -> [m EXCEPT !.network = v]
    [] field = "deploymentType"  ->
         normalizeFrontendHosting([m EXCEPT !.deploymentType = v])
    [] field = "frontendHosting" -> [m EXCEPT !.frontendHosting = v]
    [] field = "domain"          -> [m EXCEPT !.domain = normalizeDomainStr(v)]
    [] field = "integrations"    -> [m EXCEPT !.integrations = v]

\* a field is picked: its re-prompt opens
PickField ==
  /\ pc = "pickField"
  /\ \E f \in Range(prompt.options) :
       /\ pc' = "editField"
       /\ prompt' = EditPrompt(f, meta)
  /\ lastEvent' = "PickField"
  /\ normalizerRan' = FALSE
  /\ UNCHANGED <<procVars, walletVars, consoleLog, fnVars>>
  /\ UNCHANGED <<results, meta, summary, next, outcome, returned,
                 groupCancelled, pass>>

\* the field-selection prompt is dismissed: continue (metadata.ts 218)
PickFieldCancel ==
  /\ pc = "pickField"
  /\ EnterReview(meta)
  /\ lastEvent' = "PickFieldCancel"
  /\ normalizerRan' = FALSE
  /\ UNCHANGED <<procVars, walletVars, consoleLog, fnVars>>
  /\ UNCHANGED <<results, groupCancelled, pass>>

\* the re-prompt resolves to an accepted value
EditSubmit ==
  /\ pc = "editField"
  /\ \E v \in Answers(prompt) :
       /\ ~Rejected(prompt, v)
       /\ EnterReview(EditApply(prompt.name, v, meta))
  /\ lastEvent' = "EditSubmit"
  /\ normalizerRan' = (prompt.name = "deploymentType")
  /\ UNCHANGED <<procVars, walletVars, consoleLog, fnVars>>
  /\ UNCHANGED <<results, groupCancelled, pass>>

\* a rejected re-prompt that clears the field it was opened for
EditInvalid_clears ==
  /\ pc = "editField"
  /\ \E v \in Answers(prompt) : Rejected(prompt, v)
  /\ prompt' = [prompt EXCEPT !.error = TRUE]
  /\ meta' = IF prompt.name = "domain"
             THEN [meta EXCEPT !.domain = JNull]
             ELSE [meta EXCEPT !.projectName = <<>>]
  /\ lastEvent' = "EditInvalid"
  /\ normalizerRan' = FALSE
  /\ UNCHANGED <<procVars, walletVars, consoleLog, fnVars>>
  /\ UNCHANGED <<pc, results, summary, next, outcome, returned,
                 groupCancelled, pass>>

\* the re-prompt rejects the value: it stays open
EditInvalid ==
  /\ pc = "editField"
  /\ \E v \in Answers(prompt) : Rejected(prompt, v)
  /\ prompt' = [prompt EXCEPT !.error = TRUE]
  /\ lastEvent' = "EditInvalid"
  /\ normalizerRan' = FALSE
  /\ UNCHANGED <<procVars, walletVars, consoleLog, fnVars>>
  /\ UNCHANGED <<pc, results, meta, summary, next, outcome, returned,
                 groupCancelled, pass>>

\* a dismissed re-prompt treated like a dismissed review prompt
EditCancel_terminal ==
  /\ pc = "editField"
  /\ next' = "cancel"
  /\ ReturnNull
  /\ lastEvent' = "EditCancel"
  /\ normalizerRan' = FALSE
  /\ UNCHANGED <<procVars, walletVars, consoleLog, fnVars>>
  /\ UNCHANGED <<results, groupCancelled, pass>>

\* the re-prompt is dismissed: nothing is assigned
EditCancel ==
  /\ pc = "editField"
  /\ EnterReview(meta)
  /\ lastEvent' = "EditCancel"
  /\ normalizerRan' = FALSE
  /\ UNCHANGED <<procVars, walletVars, consoleLog, fnVars>>
  /\ UNCHANGED <<results, groupCancelled, pass>>


(***************************************************************************)
(* runWalletSetup (src/unnamed/part_001, lines 75-489) from its call on:   *)
(* the prompts it opens one after the other, the answers it keeps and the  *)
(* result it returns; then the rest of main, and the process as a whole.   *)
(***************************************************************************)
Pokt1 == <<"p","o","k","t","1">>

\* isPoktAddress
isPoktAddress(val) ==
  LET v == trim(val)
  IN  /\ StartsWith(v, Pokt1)
      /\ Len(v) - Len(Pokt1) >= MinAddrBody
      /\ Len(v) - Len(Pokt1) <= MaxAddrBody
      /\ \A i \in (Len(Pokt1) + 1)..Len(v) : v[i] \in Digit \cup Lower

\* the prompts of runWalletSetup, in the order they open
WalletSteps ==
  << "gatewayName", "gatewayAddress", "applicationName",
     "applicationAddress", "copyConfirm", "funded", "copyBalCmds",
     "sawNonZero", "choice", "copyCfg", "madeFiles", "copyStakeGw",
     "gwStaked", "copyStakeApp", "appStaked", "copyDelegate", "proceed" >>

WalletTexts ==
  {"gatewayName", "gatewayAddress", "applicationName", "applicationAddress"}

\* confirm prompts whose answer only decides about a copy to the clipboard
WalletOffers ==
  {"copyConfirm", "copyBalCmds", "copyCfg", "copyStakeGw", "copyStakeApp",
   "copyDelegate"}

\* confirm prompts that end the setup unless answered yes
WalletGates ==
  {"funded", "sawNonZero", "madeFiles", "gwStaked", "appStaked", "proceed"}

WalletStepIndex(name) ==
  CHOOSE i \in 1..Len(WalletSteps) : WalletSteps[i] = name

\* the prompt of a step; isFish is looksLikeFishShell()
WalletPrompt(name, isFish) ==
  IF name \in WalletTexts
  THEN [ name |-> name, kind |-> "text", options |-> <<>>,
         initialValue |-> IF name = "gatewayName" THEN <<"m","y","-","g","a","t","e","w","a","y">>
                          ELSE IF name = "applicationName" THEN <<"m","y","-","a","p","p">>
                          ELSE <<>>,
         error |-> FALSE ]
  ELSE IF name = "choice"
  THEN [ name |-> name, kind |-> "select",
         options |-> <<"heredoc", "printf">>,
         initialValue |-> <<IF isFish THEN "printf" ELSE "heredoc">>,
         error |-> FALSE ]
  ELSE [ name |-> name, kind |-> "confirm", options |-> <<>>,
         initialValue |-> <<IF name \in {"copyConfirm", "copyBalCmds"}
                            THEN "false" ELSE "true">>,
         error |-> FALSE ]

\* validate without the comparison with the gateway address
validateWalletText_sameAllowed(name, v, w) ==
  \/ trim(v) = <<>>
  \/ /\ name \in {"gatewayAddress", "applicationAddress"}
     /\ ~isPoktAddress(v)

\* validate of the four text prompts: TRUE when it returns a message
validateWalletText(name, v, w) ==
  \/ trim(v) = <<>>
  \/ /\ name \in {"gatewayAddress", "applicationAddress"}
     /\ ~isPoktAddress(v)
  \/ /\ name = "applicationAddress"
     /\ trim(v) = trim(w.gatewayAddress)

\* what can be typed at the text prompts
AddrBody20 == Rep("a", MinAddrBody)
WalletNameInputs == { <<>>, <<" ">> }
\* at the gateway address prompt one text is an address: 20 characters
\* after pokt1, with whitespace around it
WalletGatewayInputs ==
  { <<>>,
    Pokt1 \o Rep("a", MinAddrBody - 1),
    <<" ">> \o Pokt1 \o AddrBody20 \o <<"\r">>,
    Pokt1 \o Rep("7", MaxAddrBody + 1),
    Pokt1 \o Rep("A", MinAddrBody),
    <<"p","o","k","t","2">> \o AddrBody20 }
\* at the application address prompt: the gateway's address as typed and
\* trimmed, and an address of 90 characters after pokt1
WalletApplicationInputs ==
  { <<>>,
    Pokt1 \o AddrBody20,
    <<" ">> \o Pokt1 \o AddrBody20 \o <<"\r">>,
    Pokt1 \o Rep("7", MaxAddrBody),
    Pokt1 \o Rep("7", MaxAddrBody + 1) }

WalletAnswers(p) ==
  IF p.name \in {"gatewayName", "applicationName"}
  THEN WalletNameInputs \cup {p.initialValue}
  ELSE IF p.name = "gatewayAddress" THEN WalletGatewayInputs
  ELSE WalletApplicationInputs

\* the payload of lines 448-461
WalletPayload(network, w, now) ==
  [ network     |-> network,
    gateway     |-> [ name |-> w.gatewayName,
                      address |-> trim(w.gatewayAddress) ],
    application |-> [ name |-> w.applicationName,
                      address |-> trim(w.applicationAddress) ],
    exportPath  |-> ".tmp/keys.json",
    funded      |-> TRUE,
    fundedAtIso |-> now ]

\* return null
WalletReturnNull ==
  /\ walletPc' = "returnedNull"
  /\ prompt' = NoPrompt
  /\ UNCHANGED <<wallet, walletResult, walletAwait>>

\* the code after the prompt of step name, with the answers w, up to the
\* next prompt, which opens
WalletAdvance(name, w) ==
  /\ wallet' = w
  /\ walletPc' = WalletSteps[WalletStepIndex(name) + 1]
  /\ \E isFish \in BOOLEAN :
       prompt' = WalletPrompt(WalletSteps[WalletStepIndex(name) + 1], isFish)
  /\ walletAwait' = NoAwait
  /\ UNCHANGED walletResult

\* await copyToClipboard(...), after an offer to copy was answered yes:
\* runWalletSetup is suspended and no prompt is open
WalletAwaitCopy ==
  /\ walletAwait' = [on |-> "copyToClipboard"]
  /\ prompt' = NoPrompt
  /\ UNCHANGED <<walletPc, wallet, walletResult>>

\* the code after the last prompt was answered yes (lines 448-465): the
\* payload is built with the reading of the clock and
\* await writeSecureJson(...) suspends runWalletSetup
WalletAwaitWrite ==
  /\ \E now \in Timestamps :
       walletAwait' = [ on |-> "writeSecureJson",
                        payload |-> WalletPayload(walletNetwork, wallet, now) ]
  /\ prompt' = NoPrompt
  /\ UNCHANGED <<walletPc, wallet, walletResult>>

WalletFrame ==
  UNCHANGED <<pc, results, meta, summary, next, outcome, returned,
              groupCancelled, pass, normalizerRan, procVars, consoleLog,
              fnVars>>

\* a text prompt resolves to a value its validator accepts
WalletSubmit ==
  /\ walletPc \in WalletTexts
  /\ \E v \in WalletAnswers(prompt) :
       /\ ~validateWalletText(walletPc, v, wallet)
       /\ WalletAdvance(walletPc, [wallet EXCEPT ![walletPc] = v])
  /\ lastEvent' = "WalletSubmit"
  /\ WalletFrame

\* a text prompt rejects the value: it stays open
WalletInvalid ==
  /\ walletPc \in WalletTexts
  /\ \E v \in WalletAnswers(prompt) : validateWalletText(walletPc, v, wallet)
  /\ prompt' = [prompt EXCEPT !.error = TRUE]
  /\ lastEvent' = "WalletInvalid"
  /\ UNCHANGED walletVars
  /\ WalletFrame

\* the select prompt resolves to a value
WalletChoose ==
  /\ walletPc = "choice"
  /\ \E v \in Range(prompt.options) :
       WalletAdvance(walletPc, [wallet EXCEPT !.choice = v])
  /\ lastEvent' = "WalletChoose"
  /\ WalletFrame

\* a confirm prompt resolves, to true, to false or to the cancel symbol
\* ("cancel"): the code after a gate returns null unless it is true; the
\* code after an offer to copy awaits copyToClipboard on true and goes on to
\* the next prompt otherwise; after the last gate, answered true, it awaits
\* writeSecureJson
WalletConfirm ==
  /\ walletPc \in WalletOffers \cup WalletGates
  /\ walletAwait = NoAwait
  /\ \E answer \in {"true", "false", "cancel"} :
       IF walletPc \in WalletGates /\ answer # "true"
       THEN WalletReturnNull
       ELSE IF walletPc \in WalletOffers /\ answer = "true"
       THEN WalletAwaitCopy
       ELSE IF walletPc = WalletSteps[Len(WalletSteps)]
       THEN WalletAwaitWrite
       ELSE WalletAdvance(walletPc, wallet)
  /\ lastEvent' = "WalletConfirm"
  /\ WalletFrame

\* copyToClipboard settles (it never rejects: it returns false when the
\* clipboard cannot be written): a note is printed and the next prompt opens
WalletCopied ==
  /\ walletAwait.on = "copyToClipboard"
  /\ WalletAdvance(walletPc, wallet)
  /\ lastEvent' = "WalletCopied"
  /\ WalletFrame

\* writeSecureJson settles (part_001 465-488): fulfilled, the payload is
\* returned; rejected (fs.writeFile or fs.rename failed), runWalletSetup
\* rejects
WalletWritten ==
  /\ walletAwait.on = "writeSecureJson"
  /\ \E written \in BOOLEAN :
       IF written
       THEN /\ walletPc' = "returned"
            /\ walletResult' = walletAwait.payload
       ELSE /\ walletPc' = "threw"
            /\ UNCHANGED walletResult
  /\ walletAwait' = NoAwait
  /\ UNCHANGED <<prompt, wallet>>
  /\ lastEvent' = "WalletWritten"
  /\ WalletFrame

\* a text prompt or the select prompt is dismissed: null is returned
WalletCancel ==
  /\ walletPc \in WalletTexts \cup {"choice"}
  /\ WalletReturnNull
  /\ lastEvent' = "WalletCancel"
  /\ WalletFrame

\* main without the check of line 43: wallet setup starts whatever
\* collectProjectMetadata concluded with
MainAfterCollect_unchecked ==
  /\ mainPc = "collect"
  /\ pc = "done"
  /\ mainPc' = "wallet"
  /\ walletNetwork' = IF outcome = "meta" THEN returned.network ELSE Undef
  /\ walletPc' = WalletSteps[1]
  /\ prompt' = WalletPrompt(WalletSteps[1], FALSE)
  /\ UNCHANGED <<wallet, walletResult, walletAwait, isTTY, exitCode>>
  /\ lastEvent' = "MainAfterCollect"
  /\ UNCHANGED <<pc, results, meta, summary, next, outcome, returned,
                 groupCancelled, pass, normalizerRan, failures,
                 consoleLog, fnVars>>

\* main after await collectProjectMetadata() (part_002 42-46): exit(1) on
\* null, the catch handler of main() on a rejection, else
\* runWalletSetup(network) is called and runs up to its first prompt
MainAfterCollect ==
  /\ mainPc = "collect"
  /\ pc = "done"
  /\ IF outcome = "meta"
     THEN /\ mainPc' = "wallet"
          /\ walletNetwork' = returned.network
          /\ walletPc' = WalletSteps[1]
          /\ prompt' = WalletPrompt(WalletSteps[1], FALSE)
          /\ UNCHANGED <<wallet, walletResult, walletAwait, isTTY, exitCode>>
     ELSE /\ Exit("1")
          /\ UNCHANGED walletVars
  /\ lastEvent' = "MainAfterCollect"
  /\ UNCHANGED <<pc, results, meta, summary, next, outcome, returned,
                 groupCancelled, pass, normalizerRan, failures,
                 consoleLog, fnVars>>

\* main after await runWalletSetup(network) (part_002 46-57): with a payload
\* the outro and process.exit(0); with null main returns and process.exit
\* is not called; a rejection (writeSecureJson failed) reaches the catch
\* handler of main() (part_002 60-65), which calls process.exit(1)
MainAfterWallet ==
  /\ mainPc = "wallet"
  /\ walletPc \in {"returned", "returnedNull", "threw"}
  /\ IF walletPc = "returned" THEN Exit("0")
     ELSE IF walletPc = "threw" THEN Exit("1")
     ELSE /\ mainPc' = "returned"
          /\ UNCHANGED <<prompt, isTTY, exitCode, walletNetwork>>
  /\ lastEvent' = "MainAfterWallet"
  /\ UNCHANGED <<pc, results, meta, summary, next, outcome, returned,
                 groupCancelled, pass, normalizerRan, failures, walletVars,
                 consoleLog, fnVars>>

Next ==
  \/ MainStart
  \/ MainPressEnter
  \/ MainPressEnterCancel
  \/ MainPreflightAnswer
  \/ MainPreflightCancel
  \/ MainAfterCollect
  \/ MainAfterWallet
  \/ GroupSubmit
  \/ GroupInvalid
  \/ GroupCancel
  \/ ReviewConfirm
  \/ ReviewCancel
  \/ ReviewStartOver
  \/ ReviewEdit
  \/ PickField
  \/ PickFieldCancel
  \/ EditSubmit
  \/ EditInvalid
  \/ EditCancel
  \/ WalletSubmit
  \/ WalletInvalid
  \/ WalletChoose
  \/ WalletConfirm
  \/ WalletCopied
  \/ WalletWritten
  \/ WalletCancel

Spec == Init /\ [][Next]_vars

(***************************************************************************)
(* Functions applied on their own: the wizard and main do not run, the     *)
(* argument is drawn from a set of inputs and the function is applied.     *)
(***************************************************************************)
NoProcess ==
  /\ IdleWizard
  /\ isTTY = TRUE
  /\ mainPc = "none"
  /\ failures = {}
  /\ exitCode = "none"
  /\ walletNetwork = "none"
  /\ consoleLog = <<>>
  /\ IdleWallet

\* the ProjectMetadata objects normalizeFrontendHosting is applied to:
\* every deploymentType with every frontendHosting, and the string a
\* dismissed prompt of the initial pass leaves in either field
NormInputs ==
  [ projectName     : {<<"g","w">>},
    network         : Networks,
    deploymentType  : DeploymentTypes \cup {CanceledTok},
    frontendHosting : FrontendHostings \cup {CanceledTok},
    domain          : {JNull, JStr(LocalhostChars)},
    integrations    : {JArr(<<>>), JArr(<<"stripe", "auth">>)},
    createdAtIso    : Timestamps ]

NormInit ==
  /\ NoProcess
  /\ fnArg \in NormInputs
  /\ fnRes = <<>>

\* normalizeFrontendHosting(meta), again on the same object
NormApply ==
  /\ Len(fnRes) < MaxApplications
  /\ fnRes' = Append(fnRes,
                normalizeFrontendHosting(
                  IF fnRes = <<>> THEN fnArg ELSE fnRes[Len(fnRes)]))
  /\ UNCHANGED <<pc, prompt, results, meta, summary, next, outcome, returned,
                 groupCancelled, pass, lastEvent, normalizerRan, procVars,
                 walletVars, consoleLog, fnArg>>

NormSpec == NormInit /\ [][NormApply]_vars

(***************************************************************************)
(* The deploymentType branch of editLoop on its own (metadata.ts 226-231): *)
(* a configuration, and accepted deploymentType re-prompts one after the   *)
(* other.                                                                  *)
(***************************************************************************)
RewriteInit ==
  /\ NoProcess
  /\ fnArg \in NormInputs
  /\ fnRes = <<>>

\* the deploymentType re-prompt resolves to v
RewriteApply ==
  /\ Len(fnRes) < MaxApplications
  /\ \E v \in Range(promptsDeploymentType(Undef).options) :
       fnRes' = Append(fnRes,
                  EditApply("deploymentType", v,
                            IF fnRes = <<>> THEN fnArg ELSE fnRes[Len(fnRes)]))
  /\ UNCHANGED <<pc, prompt, results, meta, summary, next, outcome, returned,
                 groupCancelled, pass, lastEvent, normalizerRan, procVars,
                 walletVars, consoleLog, fnArg>>

RewriteSpec == RewriteInit /\ [][RewriteApply]_vars

(***************************************************************************)
(* The domain prompt on its own: validate (metadata.ts 127-133) and the    *)
(* two places that store the answer (askAll, line 176, and editLoop, line  *)
(* 242).  An input is put together from leading whitespace, a scheme, a    *)
(* host, trailing slashes and trailing whitespace.                         *)
(***************************************************************************)
ProbeSchemes ==
  { <<>>, <<"h","t","t","p",":","/","/">>, <<"h","t","t","p","s",":","/","/">>, <<"H","T","T","P","S",":","/","/">>, <<"h","T","T","p",":","/","/">> }

ProbeHosts ==
  { <<>>, <<"A","P","I",".","E","x","a","m","p","l","e",".","c","o","m">>, <<"l","o","c","a","l","h","o","s","t",":","8","0","8","0">>, <<"a"," ","b",".","i","o">>, <<"Σ","X",".","i","o">>, <<"Ɓ","Σ",".","I","O">> }

DomainProbes ==
  [ lead    : {<<>>, <<" ">>, <<"\r", " ">>},
    scheme  : ProbeSchemes,
    host    : ProbeHosts,
    slashes : {<<>>, <<"/">>, <<"/","/">>},
    trail   : {<<>>, <<" ">>} ]

\* the text typed at the prompt
ProbeText(x) == x.lead \o x.scheme \o x.host \o x.slashes \o x.trail

\* the results of a pass whose domain prompt resolved to v
ProbeResults(v) ==
  [ projectName     |-> <<"g","w">>,
    network         |-> "testnet",
    deploymentType  |-> "vps",
    frontendHosting |-> "same-vps",
    domain          |-> v,
    integrations    |-> JArr(<<>>) ]

\* a configuration with a domain, for the re-prompt
ProbeMeta ==
  [ projectName     |-> <<"g","w">>,
    network         |-> "testnet",
    deploymentType  |-> "vps",
    frontendHosting |-> "same-vps",
    domain          |-> JStr(LocalhostChars),
    integrations    |-> JArr(<<>>),
    createdAtIso    |-> 0 ]

DomainInit ==
  /\ NoProcess
  /\ fnArg \in DomainProbes
  /\ fnRes = <<>>

\* the text is submitted: validate runs; what askAll and what editLoop
\* store for it
DomainApply ==
  /\ fnRes = <<>>
  /\ LET v == ProbeText(fnArg)
     IN  fnRes' = << [ accepted |-> ~validateDomain(v),
                       initial  |-> askAllMeta(ProbeResults(v), 0).domain,
                       edited   |-> EditApply("domain", v, ProbeMeta).domain ] >>
  /\ UNCHANGED <<pc, prompt, results, meta, summary, next, outcome, returned,
                 groupCancelled, pass, lastEvent, normalizerRan, procVars,
                 walletVars, consoleLog, fnArg>>

DomainSpec == DomainInit /\ [][DomainApply]_vars

(***************************************************************************)
(* The grammar of the domain prompt: validate (metadata.ts 127-133) on     *)
(* texts put together from labels and a top label, or from localhost and   *)
(* a port.                                                                 *)
(***************************************************************************)
ProbeLabels ==
  { <<>>, <<"a">>, <<"a","-","b">>, <<"-","a">>, <<"a","-">>, <<"a","_","b">>, <<"A","1">>,
    Rep("a", MaxLabelMid + 2), Rep("a", MaxLabelMid + 3) }

ProbeTlds == { <<>>, <<"c">>, <<"i","o">>, <<"c","0">>, <<"C","O","M">> }

ProbePorts ==
  { <<>>, <<"5">>, <<"8","0">>, <<"8","0","8","0">>, <<"6","5","5","3","5">>, <<"6","5","5","3","5","0">>, <<"8","a">> }

GrammarProbes ==
  [ kind : {"fqdn"}, labels : {<<l>> : l \in ProbeLabels}, tld : ProbeTlds ]
  \cup
  [ kind : {"fqdn"},
    labels : {<<l, m>> : l \in ProbeLabels, m \in ProbeLabels},
    tld : {<<"i","o">>, <<"c">>} ]
  \cup
  [ kind : {"localhost"}, host : {LocalhostChars, <<"L","o","c","a","l","H","o","s","t">>, <<"l","o","c","a","l","h","o","s">>},
    colon : BOOLEAN, port : ProbePorts ]

\* the labels, each followed by a dot
RECURSIVE DottedLabels(_)
DottedLabels(ls) ==
  IF ls = <<>> THEN <<>> ELSE ls[1] \o <<".">> \o DottedLabels(Tail(ls))

\* the text typed at the prompt
GrammarText(x) ==
  IF x.kind = "fqdn" THEN DottedLabels(x.labels) \o x.tld
  ELSE x.host \o (IF x.colon THEN <<":">> ELSE <<>>) \o x.port

GrammarInit ==
  /\ NoProcess
  /\ fnArg \in GrammarProbes
  /\ fnRes = <<>>

\* the text is submitted: validate runs, in askAll as in editLoop
GrammarApply ==
  /\ fnRes = <<>>
  /\ fnRes' = << [ accepted |-> ~validateDomain(GrammarText(fnArg)) ] >>
  /\ UNCHANGED <<pc, prompt, results, meta, summary, next, outcome, returned,
                 groupCancelled, pass, lastEvent, normalizerRan, procVars,
                 walletVars, consoleLog, fnArg>>

GrammarSpec == GrammarInit /\ [][GrammarApply]_vars

(***************************************************************************)
(* The configurations a user or caller gets to see: the one editLoop       *)
(* shows and edits, and the one collectProjectMetadata returned.           *)
(***************************************************************************)
InEditLoop == pc \in {"review", "pickField", "editField"}

Exposed ==
  (IF InEditLoop THEN {meta} ELSE {}) \cup
  (IF outcome = "meta" THEN {returned} ELSE {})

\* the initialValue the factories give a prompt of the initial pass
BuiltinSeed(name, res) ==
  CASE name = "projectName"     -> <<>>
    [] name = "network"         -> <<"testnet">>
    [] name = "deploymentType"  -> <<"vps">>
    [] name = "frontendHosting" ->
         IF res.deploymentType = "local" THEN <<"vercel">> ELSE <<"same-vps">>
    [] name = "domain"          -> <<>>
    [] name = "integrations"    -> <<>>

(***************************************************************************)
(* Properties.                                                             *)
(***************************************************************************)

\* C1: once a prompt of the initial pass has been dismissed, no further
\* prompt of the pass is open, collectProjectMetadata has returned null, and
\* no configuration of that pass is shown in a review or returned.
C1_CancelAbortsPass ==
  groupCancelled =>
    /\ pc = "done"
    /\ outcome = "null"
    /\ summary = NoSummary
    /\ returned = NoMeta

\* C2: every configuration shown at a review prompt or returned has its
\* network, deploymentType and frontendHosting in their enumerations and
\* integrations an array of values of its enumeration.
C2_ValuesInEnums ==
  \A m \in Exposed :
    /\ m.network \in Networks
    /\ m.deploymentType \in DeploymentTypes
    /\ m.frontendHosting \in FrontendHostings
    /\ m.integrations.type = "array"
    /\ Range(m.integrations.val) \subseteq Integrations

\* C3: in every configuration shown at a review prompt or returned,
\* deploymentType = local implies frontendHosting # same-vps.
C3_HostingConsistent ==
  \A m \in Exposed :
    m.deploymentType = "local" => m.frontendHosting # "same-vps"

C3_Witness ==
  /\ pc = "review"
  /\ lastEvent = "EditSubmit"
  /\ meta.deploymentType = "local"
  /\ meta.frontendHosting = "vercel"

\* C4: in every configuration shown at a review prompt or returned,
\* projectName is trimmed and its length (String.prototype.length, in UTF-16
\* code units, hence its number of characters too) is 1 to 64.
C4_NameTrimmedAndBounded ==
  \A m \in Exposed :
    /\ trim(m.projectName) = m.projectName
    /\ length(m.projectName) >= 1
    /\ length(m.projectName) <= MaxNameLen
    /\ Len(m.projectName) >= 1
    /\ Len(m.projectName) <= MaxNameLen

\* a name of 64 code units in 63 characters was accepted
C4_Witness ==
  /\ pc = "review"
  /\ lastEvent = "EditSubmit"
  /\ length(meta.projectName) = MaxNameLen
  /\ Len(meta.projectName) < MaxNameLen

\* C5: in every configuration shown at a review prompt or returned, domain
\* is null or a string domainLooksValid accepts.
C5_DomainWellFormed ==
  \A m \in Exposed :
    \/ m.domain = JNull
    \/ m.domain.type = "string" /\ domainLooksValid(m.domain.val)

\* C6: a configuration is returned only after editLoop returned confirm;
\* null is returned when the initial pass was cancelled or editLoop returned
\* cancel; after start-over nothing is returned and the pass runs again.
C6_ReturnProtocol ==
  /\ outcome = "meta" <=> next = "confirm"
  /\ next = "cancel" => outcome = "null"
  /\ (groupCancelled /\ pc # "askAll") => (pc = "done" /\ outcome = "null")
  /\ lastEvent = "ReviewStartOver" => (pc = "askAll" /\ outcome = "pending")

\* C7: dismissing the field-selection prompt or the re-prompt of a field
\* leaves every field of the configuration as it was and reopens the review
\* prompt; collectProjectMetadata does not conclude.
C7_EditCancelIsolated ==
  [][ (pc \in {"pickField", "editField"}
        /\ lastEvent' \in {"PickFieldCancel", "EditCancel"})
      => /\ meta' = meta
         /\ pc' = "review"
         /\ prompt' = ReviewPrompt
         /\ outcome' = "pending"
         /\ next' = next ]_vars

C7_Witness ==
  /\ pc = "review"
  /\ lastEvent = "EditCancel"
  /\ meta.deploymentType = "local"
  /\ meta.domain # JNull

\* C8: a pass, also one after start-over, starts from nothing: no
\* configuration, empty results, and every prompt seeded with the built-in
\* default (for frontendHosting: same-vps, or vercel when local was chosen
\* in this very pass), never with a value of the discarded configuration.
C8_StartOverDiscards ==
  /\ pc = "askAll" =>
       /\ meta = NoMeta
       /\ summary = NoSummary
       /\ DOMAIN results = {Fields[i] : i \in 1..(FieldIndex(prompt.name) - 1)}
       /\ prompt.initialValue = BuiltinSeed(prompt.name, results)
  /\ lastEvent = "ReviewStartOver" =>
       /\ pc = "askAll"
       /\ prompt.name = "projectName"
       /\ results = NoResults

C8_Witness ==
  /\ pass >= 2
  /\ pc = "askAll"
  /\ prompt.name = "integrations"

\* C9: confirm returns the configuration whose summary the review prompt
\* showed, and changes no field of it.
C9_ConfirmReturnsShown ==
  [][ (pc = "review" /\ outcome' = "meta")
      => /\ returned' = meta
         /\ meta' = meta
         /\ formatSummary(returned') = summary
         /\ summary' = summary ]_vars

C9_Witness ==
  /\ outcome = "meta"
  /\ lastEvent = "ReviewConfirm"
  /\ returned.network = "mainnet"
  /\ returned.domain # JNull
  /\ returned.integrations = JArr(<<"stripe", "auth">>)

\* C10: collectProjectMetadata concludes only by returning a configuration
\* or null, never by raising an error.
C10_ConcludesNormally ==
  pc = "done" => outcome \in {"meta", "null"}

\* C11: normalizeFrontendHosting is idempotent: on every configuration,
\* applying it twice gives what applying it once gives.
C11_NormalizerIdempotent ==
  \A i \in 2..Len(fnRes) : fnRes[i] = fnRes[1]

C11_Witness ==
  /\ Len(fnRes) >= 2
  /\ fnArg.deploymentType = "local"
  /\ fnArg.frontendHosting = "same-vps"
  /\ fnRes[1].frontendHosting = "vercel"
  /\ fnRes[1] # fnArg

\* C12: createdAtIso is written when the pass that creates the
\* configuration completes (no configuration exists while the pass runs),
\* and no step of the review/edit loop changes it: not a review action,
\* not an accepted or dismissed re-prompt, not the return.
C12_CreatedAtSetOnce ==
  [][ /\ (pc = "askAll" => meta = NoMeta)
      /\ (pc = "askAll" /\ meta' # NoMeta => meta'.createdAtIso \in Timestamps)
      /\ (meta # NoMeta /\ meta' # NoMeta =>
            meta'.createdAtIso = meta.createdAtIso)
      /\ (meta # NoMeta /\ outcome' = "meta" =>
            returned'.createdAtIso = meta.createdAtIso) ]_vars

C12_Witness ==
  /\ pc = "review"
  /\ lastEvent = "EditSubmit"
  /\ meta.createdAtIso = MaxClock
  /\ meta.network = "mainnet"
  /\ meta.domain # JNull

\* C13: in main, collectProjectMetadata is called only after
\* runPreflightOrExit returned, never when a required check failed (the
\* process has then exited with status 1); runWalletSetup is called only
\* after collectProjectMetadata returned a configuration, with that
\* configuration's network; after null it is never called.
C13_MainSequencing ==
  /\ (pc # "idle" =>
        /\ mainPc \in {"collect", "wallet", "returned", "exited"}
        /\ failures \cap RequiredChecks = {})
  /\ (failures \cap RequiredChecks # {} =>
        /\ pc = "idle"
        /\ walletPc = "idle"
        /\ mainPc = "exited"
        /\ exitCode = "1")
  /\ (walletPc # "idle" <=> walletNetwork # "none")
  /\ (walletPc # "idle" =>
        /\ pc = "done"
        /\ outcome = "meta"
        /\ walletNetwork = returned.network
        /\ mainPc \in {"wallet", "returned", "exited"})
  /\ (mainPc \in {"wallet", "returned"} =>
        walletPc # "idle" /\ exitCode = "none")
  /\ (pc = "done" /\ outcome # "meta" =>
        /\ mainPc \in {"collect", "exited"}
        /\ walletNetwork = "none"
        /\ walletPc = "idle")

C13_Witness ==
  /\ mainPc = "wallet"
  /\ lastEvent = "MainAfterCollect"
  /\ walletNetwork = "mainnet"
  /\ returned.network = "mainnet"
  /\ next = "confirm"
  /\ walletPc = "gatewayName"
  /\ prompt.name = "gatewayName"

\* C14: when the deploymentType re-prompt accepts local while
\* frontendHosting is same-vps, the next review prompt shows frontendHosting
\* vercel; the edit is not rejected and raises no error.
C14_LocalEditRewritesHosting ==
  [][ ( /\ pc = "editField"
        /\ prompt.name = "deploymentType"
        /\ meta.frontendHosting = "same-vps"
        /\ lastEvent' = "EditSubmit"
        /\ meta'.deploymentType = "local" )
      => /\ pc' = "review"
         /\ prompt' = ReviewPrompt
         /\ outcome' = "pending"
         /\ meta'.frontendHosting = "vercel"
         /\ summary'.deploymentType = "Local only"
         /\ summary'.frontendHosting = "Vercel" ]_vars

C14_Witness ==
  /\ pc = "review"
  /\ lastEvent = "EditSubmit"
  /\ meta.deploymentType = "local"
  /\ meta.frontendHosting = "vercel"
  /\ normalizerRan
  /\ summary.deploymentType = "Local only"
  /\ summary.frontendHosting = "Vercel"

\* C15: an accepted re-prompt of field X changes no field but X, except
\* that an accepted deploymentType re-prompt answered local also changes
\* frontendHosting from same-vps to vercel.
C15_EditChangesOnlyItsField ==
  [][ (pc = "editField" /\ lastEvent' = "EditSubmit") =>
        \A f \in DOMAIN meta :
          \/ f = prompt.name
          \/ meta'[f] = meta[f]
          \/ /\ prompt.name = "deploymentType"
             /\ f = "frontendHosting"
             /\ meta'.deploymentType = "local"
             /\ meta[f] = "same-vps"
             /\ meta'[f] = "vercel" ]_vars

C15_Witness ==
  /\ pc = "review"
  /\ lastEvent = "EditSubmit"
  /\ normalizerRan
  /\ meta.deploymentType = "vps"
  /\ meta.frontendHosting = "skip"
  /\ meta.domain # JNull
  /\ meta.integrations = JArr(<<"stripe", "auth">>)

\* C16: after every accepted re-prompt of deploymentType and after every
\* accepted re-prompt of frontendHosting, editLoop calls
\* normalizeFrontendHosting on the configuration before the review prompt
\* opens again.
C16_NormalizerAfterBothEdits ==
  [][ ( /\ pc = "editField"
        /\ prompt.name \in {"deploymentType", "frontendHosting"}
        /\ lastEvent' = "EditSubmit" )
      => /\ pc' \in {"review", "done"}
         /\ normalizerRan' ]_vars

\* C17: the prompts of the initial pass open in the order projectName,
\* network, deploymentType, frontendHosting, domain, integrations; the
\* frontendHosting prompt offers same-vps if and only if the deploymentType
\* answered before it in the pass is vps, and only vercel and skip when it
\* is local.
C17_OrderAndHostingOptions ==
  pc = "askAll" =>
    /\ prompt.name \in Range(Fields)
    /\ DOMAIN results = {Fields[i] : i \in 1..(FieldIndex(prompt.name) - 1)}
    /\ (prompt.name = "frontendHosting" =>
          /\ ("same-vps" \in Range(prompt.options)) <=> (results.deploymentType = "vps")
          /\ (results.deploymentType = "local" =>
                prompt.options = <<"vercel", "skip">>))

\* the same, in a pass no prompt of which was dismissed
C17_Undismissed ==
  ~groupCancelled => C17_OrderAndHostingOptions

\* C18: a pass in which no prompt is dismissed, a valid project name is
\* entered and every other prompt is answered with its preselected value
\* ends with network testnet, deploymentType vps, frontendHosting same-vps,
\* domain null and no integrations; and whenever local was answered, the
\* frontendHosting prompt of the pass preselects vercel.
C18_Defaults ==
  [][ /\ ( ( /\ pc = "askAll"
              /\ prompt.name = "integrations"
              /\ ~groupCancelled
              /\ lastEvent' = "GroupSubmit"
              /\ results.network = promptsNetwork(Undef).initialValue[1]
              /\ results.deploymentType = promptsDeploymentType(Undef).initialValue[1]
              /\ results.frontendHosting =
                   promptsFrontendHosting(results.deploymentType, Undef).initialValue[1]
              /\ results.domain = promptsDomain(JUndef).initialValue
              /\ meta'.integrations = JArr(prompt.initialValue) )
            => /\ pc' = "review"
               /\ meta'.projectName = trim(results.projectName)
               /\ meta'.network = "testnet"
               /\ meta'.deploymentType = "vps"
               /\ meta'.frontendHosting = "same-vps"
               /\ meta'.domain = JNull
               /\ meta'.integrations = JArr(<<>>) )
      /\ ( ( /\ pc' = "askAll"
              /\ prompt'.name = "frontendHosting"
              /\ results'.deploymentType = "local" )
            => prompt'.initialValue = <<"vercel">> ) ]_vars

C18_Witness ==
  /\ pc = "review"
  /\ lastEvent = "GroupSubmit"
  /\ ~groupCancelled
  /\ pass = 1
  /\ meta.projectName = <<"g", "w">>
  /\ meta.network = "testnet"
  /\ meta.deploymentType = "vps"
  /\ meta.frontendHosting = "same-vps"
  /\ meta.domain = JNull
  /\ meta.integrations = JArr(<<>>)

\* C19: an input the validator of a prompt rejects (an empty or over-long
\* project name, a malformed domain) changes nothing but the message under
\* the prompt: the same prompt stays open with the same seed, the answers
\* given so far and the configuration keep their values, nothing is
\* returned, and the prompt can reject again or accept (a blank, for
\* domain) any number of times.
C19_RejectedInputChangesNothing ==
  [][ lastEvent' \in {"GroupInvalid", "EditInvalid"} =>
        /\ pc \in {"askAll", "editField"}
        /\ prompt.name \in TextFields
        /\ pc' = pc
        /\ prompt' = [prompt EXCEPT !.error = TRUE]
        /\ results' = results
        /\ meta' = meta
        /\ summary' = summary
        /\ outcome' = outcome
        /\ returned' = returned
        /\ (prompt.name = "projectName" =>
              /\ Rejected(prompt', <<>>)
              /\ Rejected(prompt', <<" ">>)
              /\ Rejected(prompt', Rep("a", MaxNameLen + 1))
              /\ ~Rejected(prompt', Rep("a", MaxNameLen))
              /\ Rejected(prompt', Rep(Supplementary, MaxNameLen \div 2 + 1))
              /\ ~Rejected(prompt', Rep(Supplementary, MaxNameLen \div 2)))
        /\ (prompt.name = "domain" =>
              /\ Rejected(prompt', NotADomain)
              /\ ~Rejected(prompt', <<>>)
              /\ ~Rejected(prompt', ScenarioADomain))
        /\ \E v \in Answers(prompt') : Rejected(prompt', v)
        /\ \E v \in Answers(prompt') : ~Rejected(prompt', v) ]_vars

C19_Witness ==
  /\ pc = "editField"
  /\ lastEvent = "EditInvalid"
  /\ prompt.name = "domain"
  /\ prompt.error
  /\ meta.domain # JNull
  /\ summary.domain = meta.domain.val

\* C20: for every input the validator of the domain prompt accepts, the
\* stored domain is the input trimmed, lower-cased, without one leading
\* http:// or https:// (in any letter case) and without trailing slashes:
\* the lower-cased host of the input; a blank or whitespace-only input
\* stores null; in the initial pass as in an edit.
C20_StoredIsNormalizedInput ==
  (fnRes # <<>> /\ fnRes[1].accepted) =>
    LET stored == IF fnArg.scheme \o fnArg.host \o fnArg.slashes = <<>>
                  THEN JNull
                  ELSE JStr(toLowerCase(fnArg.host))
    IN  /\ fnRes[1].initial = stored
        /\ fnRes[1].edited = stored

\* the same, for the inputs in which something is left of the host
C20_WithHost ==
  fnArg.host # <<>> => C20_StoredIsNormalizedInput

\* the parts of a probe, judged one by one
GoodTld(t) == Len(t) >= 2 /\ \A i \in 1..Len(t) : t[i] \in Letter

GoodLocalhost(x) ==
  /\ toLowerCase(x.host) = LocalhostChars
  /\ IF x.colon
     THEN /\ Len(x.port) \in 1..5
          /\ \A i \in 1..Len(x.port) : x.port[i] \in Digit
     ELSE x.port = <<>>

\* C21 as stated: the domain prompt accepts exactly the texts made of
\* dot-separated labels of letters, digits and hyphens, none beginning
\* with a hyphen, followed by a top label of two or more letters, and
\* localhost, alone or with ':' and a port of 1 to 5 digits.
C21_AcceptsStatedGrammar ==
  fnRes # <<>> =>
    ( fnRes[1].accepted <=>
        IF fnArg.kind = "fqdn"
        THEN /\ GoodTld(fnArg.tld)
             /\ \A k \in 1..Len(fnArg.labels) :
                  LET l == fnArg.labels[k]
                  IN  /\ l # <<>>
                      /\ l[1] # "-"
                      /\ \A i \in 1..Len(l) : l[i] \in AlNum \cup {"-"}
        ELSE GoodLocalhost(fnArg) )

\* C21, amended: every label also ends with a letter or digit and is at
\* most 63 characters long.
C21_AcceptsGrammar ==
  fnRes # <<>> =>
    ( fnRes[1].accepted <=>
        IF fnArg.kind = "fqdn"
        THEN /\ GoodTld(fnArg.tld)
             /\ \A k \in 1..Len(fnArg.labels) :
                  LET l == fnArg.labels[k]
                  IN  /\ l # <<>>
                      /\ Len(l) <= 63
                      /\ l[1] # "-"
                      /\ l[Len(l)] # "-"
                      /\ \A i \in 1..Len(l) : l[i] \in AlNum \cup {"-"}
        ELSE GoodLocalhost(fnArg) )

C21_Witness ==
  /\ fnRes # <<>>
  /\ fnRes[1].accepted
  /\ fnArg.kind = "localhost"
  /\ fnArg.colon
  /\ fnArg.port = <<"5">>

\* what a prompt resolves to when Enter is pressed on it as it opened: the
\* text or the selection it was seeded with; a select prompt whose seed is
\* none of its options has the cursor on the first option
SeededAnswer(p) ==
  IF p.kind = "select"
  THEN (IF p.initialValue[1] \in Range(p.options)
        THEN p.initialValue[1] ELSE p.options[1])
  ELSE IF p.kind = "multiselect" THEN JArr(p.initialValue)
  ELSE p.initialValue

\* C22: every re-prompt of the review/edit loop opens seeded with the
\* current value of its field, and submitting it as it opened is accepted
\* and leaves the configuration as it was.
C22_UnchangedResubmitIsNoOp ==
  pc = "editField" =>
    /\ prompt.initialValue =
         (CASE prompt.name = "projectName" -> meta.projectName
            [] prompt.name = "domain" ->
                 (IF meta.domain = JNull THEN <<>> ELSE meta.domain.val)
            [] prompt.name = "integrations" -> meta.integrations.val
            [] OTHER -> <<meta[prompt.name]>>)
    /\ ~Rejected(prompt, SeededAnswer(prompt))
    /\ EditApply(prompt.name, SeededAnswer(prompt), meta) = meta

\* the same, for the configurations of a pass no prompt of which was
\* dismissed
C22_Undismissed ==
  ~groupCancelled => C22_UnchangedResubmitIsNoOp

\* C23: from deploymentType vps with frontendHosting same-vps, editing
\* deploymentType to local and then back to vps leaves frontendHosting
\* vercel: the rewrite made at the first edit is not undone by the second.
C23_RewriteNotUndone ==
  ( /\ Len(fnRes) >= 2
    /\ fnArg.deploymentType = "vps"
    /\ fnArg.frontendHosting = "same-vps"
    /\ fnRes[1].deploymentType = "local"
    /\ fnRes[2].deploymentType = "vps" )
  => /\ fnRes[1].frontendHosting = "vercel"
     /\ fnRes[2].frontendHosting = "vercel"
     /\ fnRes[2] = [fnArg EXCEPT !.frontendHosting = "vercel"]

C23_Witness ==
  /\ Len(fnRes) >= 2
  /\ fnArg.deploymentType = "vps"
  /\ fnArg.frontendHosting = "same-vps"
  /\ fnRes[1].deploymentType = "local"
  /\ fnRes[2].deploymentType = "vps"
  /\ fnRes[2].frontendHosting = "vercel"

\* C24: when runPreflightOrExit has run its checks, a failed required
\* check (Node.js, Git, pocketd) exits with status 1 and no prompt; when
\* only Docker failed the continue prompt opens, with "no" preselected,
\* and collection starts only on the answer yes: the answer no and a
\* dismissed prompt exit with status 1.
C24_PreflightVerdict ==
  [][ /\ ( lastEvent' = "MainPressEnter" =>
            /\ (failures' \cap RequiredChecks # {} =>
                  /\ mainPc' = "exited"
                  /\ exitCode' = "1"
                  /\ prompt' = NoPrompt
                  /\ pc' = "idle")
            /\ ((failures' # {} /\ failures' \cap RequiredChecks = {}) =>
                  /\ failures' = {"Docker"}
                  /\ mainPc' = "preflightConfirm"
                  /\ prompt' = ContinuePrompt
                  /\ prompt'.initialValue = <<"false">>
                  /\ exitCode' = "none"
                  /\ pc' = "idle")
            /\ (failures' = {} => mainPc' = "collect" /\ pc' = "askAll") )
      /\ ( mainPc = "preflightConfirm" =>
            /\ failures = {"Docker"}
            /\ \/ /\ lastEvent' = "MainPreflightAnswer"
                  /\ mainPc' = "collect"
                  /\ pc' = "askAll"
                  /\ exitCode' = "none"
               \/ /\ lastEvent' \in {"MainPreflightAnswer", "MainPreflightCancel"}
                  /\ mainPc' = "exited"
                  /\ exitCode' = "1"
                  /\ pc' = "idle" )
      /\ ( lastEvent' = "MainPreflightCancel" =>
            mainPc' = "exited" /\ exitCode' = "1" /\ pc' = "idle" ) ]_vars

C24_Witness ==
  /\ lastEvent = "MainPreflightAnswer"
  /\ mainPc = "collect"
  /\ pc = "askAll"
  /\ prompt.name = "projectName"
  /\ exitCode = "none"

\* the address shape: pokt1 and then 20 to 90 characters of 0-9a-z
AddressShape(a) ==
  /\ Len(a) >= 25
  /\ Len(a) <= 95
  /\ SubSeq(a, 1, 5) = <<"p","o","k","t","1">>
  /\ \A i \in 6..Len(a) : a[i] \in Digit \cup Lower

\* C25: in every result runWalletSetup returns, gateway.address and
\* application.address have the address shape and differ; at the
\* application address prompt, the gateway address, with or without
\* whitespace around it, is rejected, and a rejected text leaves the prompt
\* open.
C25_WalletAddresses ==
  /\ (walletPc = "returned" =>
        /\ AddressShape(walletResult.gateway.address)
        /\ AddressShape(walletResult.application.address)
        /\ walletResult.gateway.address # walletResult.application.address
        /\ walletResult.gateway.address = trim(wallet.gatewayAddress)
        /\ walletResult.application.address = trim(wallet.applicationAddress))
  /\ (walletPc = "applicationAddress" =>
        /\ validateWalletText(walletPc, wallet.gatewayAddress, wallet)
        /\ validateWalletText(walletPc, trim(wallet.gatewayAddress), wallet)
        /\ validateWalletText(walletPc,
              <<" ">> \o wallet.gatewayAddress \o <<" ">>, wallet)
        /\ (lastEvent = "WalletInvalid" =>
              prompt.error /\ prompt.name = "applicationAddress"))
  /\ (walletPc \in {"idle", "gatewayName", "gatewayAddress", "returnedNull",
                     "threw"} \cup Range(WalletSteps)
        => walletResult = NoMeta)

C25_Witness ==
  /\ walletPc = "returned"
  /\ outcome = "meta"
  /\ wallet.gatewayAddress # trim(wallet.gatewayAddress)
  /\ Len(walletResult.application.address) = 95
  /\ walletResult.network = "mainnet"

\* C26: without an interactive terminal main opens no prompt and runs
\* neither runPreflightOrExit nor collectProjectMetadata nor
\* runWalletSetup: its only step ends the process with status 0.
C26_NoTerminalNoPrompt ==
  ~isTTY =>
    /\ prompt = NoPrompt
    /\ pc = "idle"
    /\ failures = {}
    /\ walletNetwork = "none"
    /\ walletPc = "idle"
    /\ wallet = NoWallet
    /\ mainPc \in {"start", "exited"}
    /\ (mainPc = "start" =>
          exitCode = "none" /\ lastEvent = "Init" /\ consoleLog = <<>>)
    /\ (mainPc = "exited" =>
          /\ exitCode = "0"
          /\ lastEvent = "MainStart"
          /\ consoleLog = <<NoTerminalNotice>>)

C26_Witness ==
  /\ ~isTTY
  /\ mainPc = "exited"
  /\ exitCode = "0"
  /\ consoleLog # <<>>
  /\ lastEvent = "MainStart"

====
